---- MODULE Spec2Model ----
(***************************************************************************)
(* A model of the money_report ledger: the domain objects of domain.py    *)
(* (Transaction, ValuationRecord, TradePair, Account), the repository and *)
(* the service of services.py, and the derived values the service and the *)
(* account compute (balance, asset value, return rate, trade pairs, total *)
(* assets, monthly income breakdown).                                      *)
(*                                                                         *)
(* Conventions of the model                                                *)
(*  - A Python str is a sequence.  An account name is a sequence of       *)
(*    characters (the three syllables of the real-estate marker are the   *)
(*    characters "bu", "dong", "san").  An ISO-8601 timestamp             *)
(*    "YYYY-MM-DDTHH:MM:SSZ" is the sequence <<year, month, day, time>>,  *)
(*    so that date[:10] is its first three fields, date[:7] its first     *)
(*    two, "" is << >>, and the str comparison of two timestamps is the   *)
(*    lexicographic comparison of the sequences.                          *)
(*  - The account types "cash", "investment", "consumption" stand for the *)
(*    three Korean literals of domain.py line 78, in that order.          *)
(*  - Amounts are integers; a rate (a float in the code) is kept as the   *)
(*    exact fraction [num, den].                                           *)
(*  - gen_id() (a fresh UUID) is the counter nextId; the ids a ledger file *)
(*    holds are numbers above 100, which the counter never reaches.       *)
(*  - The categories and the real-estate marker, Korean literals in the   *)
(*    code, are spelled syllable by syllable.                              *)
(*  - A colour is an opaque string where only its identity matters, and  *)
(*    the sequence of its characters where Account.validate reads it.     *)
(*  - None is "null" in a field that otherwise holds a string, and << >>  *)
(*    as the value a call returns.                                         *)
(*  - persisted is the snapshot last handed to the data source; disk is   *)
(*    what the ledger file holds, which differs when a write fails.  The  *)
(*    state of the medium (writable, not writable, full) is changed by    *)
(*    the environment; alerts counts the error boxes shown.               *)
(***************************************************************************)
EXTENDS Integers, Sequences, FiniteSets, TLC

\* Bounds of the model: valuations per account, ids drawn, salary entries,
\* ids drawn in the specifications that start from a ledger with several
\* accounts, and alerts shown.
MaxVals == 3
MaxIds == 4
MaxSalaries == 2
MaxDraws == 2
MaxAlerts == 2

VARIABLES
    accounts,   \* LedgerRepository.accounts: id -> Account
    order,      \* the key order of that dict (insertion order)
    salaries,   \* LedgerRepository.salaries
    persisted,  \* the last snapshot handed to the data source's save()
    disk,       \* what the ledger file holds
    alerts,     \* the number of "Save Error" boxes shown so far
    medium,     \* whether the file can be written: "ok", "denied" or "full"
    nextId,     \* the next value gen_id() returns
    call        \* the last service call: [op, args, outcome, ret]

vars == <<accounts, order, salaries, persisted, disk, alerts, medium, nextId, call>>

store == <<accounts, order, salaries, persisted, disk, alerts, medium>>

----------------------------------------------------------------------------
\* Strings

Marker == <<"bu", "dong", "san">>

Contains(s, sub) ==
    \E i \in 0..(Len(s) - Len(sub)) : SubSeq(s, i + 1, i + Len(sub)) = sub

\* c.isspace(), for the characters of the model
IsSpace(c) == c \in {" ", "\t", "\n", "\r", "\f"}

RECURSIVE LStrip(_)
LStrip(s) == IF s # <<>> /\ IsSpace(Head(s)) THEN LStrip(Tail(s)) ELSE s

RECURSIVE RStrip(_)
RStrip(s) ==
    IF s # <<>> /\ IsSpace(s[Len(s)]) THEN RStrip(SubSeq(s, 1, Len(s) - 1)) ELSE s

Strip(s) == RStrip(LStrip(s))

\* s[:n]
Prefix(s, n) == SubSeq(s, 1, IF Len(s) < n THEN Len(s) ELSE n)

\* a < b for two str values (sequences of integers here)
RECURSIVE StrLess(_, _)
StrLess(a, b) ==
    IF b = <<>> THEN FALSE
    ELSE IF a = <<>> THEN TRUE
    ELSE IF Head(a) # Head(b) THEN Head(a) < Head(b)
    ELSE StrLess(Tail(a), Tail(b))

\* date[:10]
DateOnly(date) == Prefix(date, 3)

----------------------------------------------------------------------------
\* Domain objects

Transaction(id, account_id, type, amount, category, memo, date) ==
    [id |-> id, account_id |-> account_id, type |-> type, amount |-> amount,
     category |-> category, memo |-> memo, date |-> date, item |-> <<>>]

ValuationRecord(id, account_id, evaluated_amount, evaluation_date, memo, transaction_type) ==
    [id |-> id, account_id |-> account_id, evaluated_amount |-> evaluated_amount,
     evaluation_date |-> evaluation_date, memo |-> memo,
     transaction_type |-> transaction_type]

TradePair(buy_valuation, sell_valuation) ==
    [buy_valuation |-> buy_valuation, sell_valuation |-> sell_valuation]

Account(id, name, type, color, opening_balance, status, image_path) ==
    [id |-> id, name |-> name, type |-> type, color |-> color,
     opening_balance |-> opening_balance, status |-> status,
     image_path |-> image_path, transactions |-> <<>>, valuations |-> <<>>,
     purchase_amount |-> 0, cash_holding |-> 0, evaluated_amount |-> 0,
     last_valuation_date |-> <<>>]

\* datetime.fromisoformat(date.replace('Z', '+00:00')) succeeds: the string is a
\* calendar date, alone or followed by a time of day.
IsIsoDate(date) ==
    /\ Len(date) \in {3, 4}
    /\ date[1] \in 1..9999
    /\ date[2] \in 1..12
    /\ LET leap == date[1] % 4 = 0 /\ (date[1] % 100 # 0 \/ date[1] % 400 = 0)
           days == IF date[2] = 2 THEN (IF leap THEN 29 ELSE 28)
                   ELSE IF date[2] \in {4, 6, 9, 11} THEN 30 ELSE 31
       IN  date[3] \in 1..days
    /\ Len(date) = 4 => date[4] \in 0..86399

\* Transaction.validate: "ok", or the error it raises
TransactionValidate(t) ==
    IF t.amount <= 0 THEN "InvalidAmount"
    ELSE IF t.type \notin {"income", "expense"} THEN "InvalidKind"
    ELSE IF ~IsIsoDate(t.date) THEN "InvalidDate"
    ELSE "ok"

\* ValuationRecord.validate: "ok", or the error it raises
ValuationValidate(v) ==
    IF v.evaluated_amount < 0 THEN "InvalidAmount"
    ELSE IF ~IsIsoDate(v.evaluation_date) THEN "InvalidDate"
    ELSE "ok"

\* The outcome of validating the elements of a list one after the other, given
\* the outcome of each: the first that is not "ok" is raised.
RECURSIVE FirstFailure(_)
FirstFailure(outcomes) ==
    IF outcomes = <<>> THEN "ok"
    ELSE IF Head(outcomes) # "ok" THEN Head(outcomes)
    ELSE FirstFailure(Tail(outcomes))

\* Account.validate: "ok", or the error it raises.  The colour is read as a
\* sequence of characters.
AccountValidate(account) ==
    IF Strip(account.name) = <<>> THEN "EmptyName"
    ELSE IF account.type \notin {"cash", "investment", "consumption"} THEN "InvalidType"
    ELSE IF Prefix(account.color, 1) # <<"#">> \/ Len(account.color) # 7
    THEN "InvalidColor"
    ELSE FirstFailure(
            [i \in 1..Len(account.transactions) |->
                TransactionValidate(account.transactions[i])]
            \o [i \in 1..Len(account.valuations) |->
                   ValuationValidate(account.valuations[i])])

----------------------------------------------------------------------------
\* Sequence helpers for the Python list operations the code uses

\* [x for x in s if Test(x)] is SelectSeq(s, Test).

\* sum(...) of a list of numbers
RECURSIVE Sum(_)
Sum(s) == IF s = <<>> THEN 0 ELSE Head(s) + Sum(Tail(s))

\* list.remove(x): drops the first element equal to x
RECURSIVE ListRemove(_, _)
ListRemove(s, x) ==
    IF s = <<>> THEN <<>>
    ELSE IF Head(s) = x THEN Tail(s)
    ELSE <<Head(s)>> \o ListRemove(Tail(s), x)

\* One insertion of sorted(..., key=evaluation_date): v goes after every element
\* whose key is not greater, which is what keeps the sort stable.
RECURSIVE InsertByDate(_, _)
InsertByDate(s, v) ==
    IF s = <<>> THEN <<v>>
    ELSE IF StrLess(v.evaluation_date, Head(s).evaluation_date) THEN <<v>> \o s
    ELSE <<Head(s)>> \o InsertByDate(Tail(s), v)

\* sorted(valuations, key=lambda v: v.evaluation_date)
RECURSIVE SortedByDate(_)
SortedByDate(s) ==
    IF s = <<>> THEN <<>>
    ELSE InsertByDate(SortedByDate(SubSeq(s, 1, Len(s) - 1)), s[Len(s)])

----------------------------------------------------------------------------
\* Repository

AsDictTransaction(t) ==
    [id |-> t.id, account_id |-> t.account_id, type |-> t.type,
     amount |-> t.amount, category |-> t.category, memo |-> t.memo,
     date |-> t.date, item |-> t.item]

AsDictValuation(v) ==
    [id |-> v.id, account_id |-> v.account_id,
     evaluated_amount |-> v.evaluated_amount,
     evaluation_date |-> v.evaluation_date, memo |-> v.memo,
     transaction_type |-> v.transaction_type]

AsDictAccount(a) ==
    [id |-> a.id, name |-> a.name, type |-> a.type, color |-> a.color,
     opening_balance |-> a.opening_balance, status |-> a.status,
     image_path |-> a.image_path,
     transactions |-> [i \in 1..Len(a.transactions) |-> AsDictTransaction(a.transactions[i])],
     valuations |-> [i \in 1..Len(a.valuations) |-> AsDictValuation(a.valuations[i])],
     purchase_amount |-> a.purchase_amount, cash_holding |-> a.cash_holding,
     evaluated_amount |-> a.evaluated_amount,
     last_valuation_date |-> a.last_valuation_date]

\* LedgerRepository._serialize of a store (accs, ord, sal)
Serialize(accs, ord, sal) ==
    [accounts |-> [i \in 1..Len(ord) |-> AsDictAccount(accs[ord[i]])],
     salaries |-> sal]

HasAccount(account_id) == account_id \in DOMAIN accounts

\* self.accounts[account.id] = account, as a new (accounts, order) pair
PutAccount(accs, ord, account) ==
    [accounts |-> [k \in (DOMAIN accs) \cup {account.id} |->
                      IF k = account.id THEN account ELSE accs[k]],
     order |-> IF account.id \in DOMAIN accs THEN ord ELSE Append(ord, account.id)]

\* What the file holds after a write that broke off: the file was truncated
\* when it was opened and at most a part of the new text reached it, which is
\* no ledger.
Torn == [torn |-> TRUE]

\* LocalJSONDataSource.save: the text of `data` replaces the file; when the
\* file cannot be opened it stays as it is, when the write breaks off it is
\* left torn, and either failure shows one alert and is swallowed.
DataSourceSave(data) ==
    /\ disk' = IF medium = "ok" THEN data
               ELSE IF medium = "denied" THEN disk
               ELSE Torn
    /\ alerts' = IF medium = "ok" THEN alerts ELSE alerts + 1
    /\ UNCHANGED medium

\* LedgerRepository.save of the store (accs, ord, sal)
RepoSave(accs, ord, sal) ==
    /\ persisted' = Serialize(accs, ord, sal)
    /\ DataSourceSave(Serialize(accs, ord, sal))

\* update_account handing the data source the updated account alone.
RepoUpdateAccountSavesOne(account) ==
    LET put == PutAccount(accounts, order, account) IN
    /\ accounts' = put.accounts
    /\ order' = put.order
    /\ persisted' = [accounts |-> <<AsDictAccount(account)>>, salaries |-> salaries]
    /\ DataSourceSave([accounts |-> <<AsDictAccount(account)>>, salaries |-> salaries])
    /\ UNCHANGED salaries

\* update_account taking the assignment back when the save fails.
RepoUpdateAccountRollsBack(account) ==
    LET put == PutAccount(accounts, order, account) IN
    /\ accounts' = IF medium = "ok" THEN put.accounts ELSE accounts
    /\ order' = IF medium = "ok" THEN put.order ELSE order
    /\ RepoSave(put.accounts, put.order, salaries)
    /\ UNCHANGED salaries

\* LedgerRepository.update_account: the assignment, then save()
RepoUpdateAccount(account) ==
    LET put == PutAccount(accounts, order, account) IN
    /\ accounts' = put.accounts
    /\ order' = put.order
    /\ RepoSave(put.accounts, put.order, salaries)
    /\ UNCHANGED salaries

\* LedgerRepository.delete_account: a stored id is removed and the store saved;
\* an id that is not stored changes nothing and saves nothing.
RepoDeleteAccount(account_id) ==
    IF HasAccount(account_id)
    THEN LET IsOther(k) == k # account_id
             accs == [k \in (DOMAIN accounts) \ {account_id} |-> accounts[k]]
             ord == SelectSeq(order, IsOther)
         IN  /\ accounts' = accs
             /\ order' = ord
             /\ RepoSave(accs, ord, salaries)
             /\ UNCHANGED salaries
    ELSE UNCHANGED store

\* LedgerRepository.add_salary: the append, then save()
RepoAddSalary(amount, month, person) ==
    LET sal == Append(salaries, [amount |-> amount, month |-> month, person |-> person])
    IN  /\ salaries' = sal
        /\ RepoSave(accounts, order, sal)
        /\ UNCHANGED <<accounts, order>>

\* Python's None (a JSON null in the ledger file)
None == "null"

\* d.get(key, default), and the default of a dataclass field that **d leaves out
Get(d, key, default) == IF key \in DOMAIN d THEN d[key] ELSE default

\* Transaction(**t)
TransactionFromDict(t) ==
    [id |-> t.id, account_id |-> t.account_id, type |-> t.type, amount |-> t.amount,
     category |-> t.category, memo |-> t.memo, date |-> t.date,
     item |-> Get(t, "item", <<>>)]

\* ValuationRecord(**v)
ValuationFromDict(v) ==
    [id |-> v.id, account_id |-> v.account_id,
     evaluated_amount |-> v.evaluated_amount,
     evaluation_date |-> v.evaluation_date, memo |-> Get(v, "memo", <<>>),
     transaction_type |-> Get(v, "transaction_type", "valuation")]

\* The list `valuations` of _deserialize after the first k entries of the
\* account's "valuations": a record whose transaction_type is None gets one, by
\* the account's name and the number of records built before it.
RECURSIVE DeserializeValuations(_, _)
DeserializeValuations(acc_dict, k) ==
    IF k = 0 THEN <<>>
    ELSE LET valuations == DeserializeValuations(acc_dict, k - 1)
             valuation == ValuationFromDict(Get(acc_dict, "valuations", <<>>)[k])
             transaction_type ==
                 IF valuation.transaction_type = None
                 THEN IF acc_dict.name = Marker
                      THEN IF Len(valuations) = 0 THEN "buy" ELSE "sell"
                      ELSE "valuation"
                 ELSE valuation.transaction_type
         IN  Append(valuations, [valuation EXCEPT !.transaction_type = transaction_type])

\* _deserialize that does not read "status": every loaded account is active.
AccountFromDictActive(acc_dict) ==
    LET txns == Get(acc_dict, "transactions", <<>>) IN
    [id |-> acc_dict.id, name |-> acc_dict.name,
     type |-> Get(acc_dict, "type", "cash"),
     color |-> acc_dict.color, opening_balance |-> acc_dict.opening_balance,
     status |-> "active",
     image_path |-> Get(acc_dict, "image_path", <<>>),
     transactions |-> [i \in 1..Len(txns) |-> TransactionFromDict(txns[i])],
     valuations |-> DeserializeValuations(acc_dict, Len(Get(acc_dict, "valuations", <<>>))),
     purchase_amount |-> Get(acc_dict, "purchase_amount", 0),
     cash_holding |-> Get(acc_dict, "cash_holding", 0),
     evaluated_amount |-> Get(acc_dict, "evaluated_amount", 0),
     last_valuation_date |-> Get(acc_dict, "last_valuation_date", <<>>)]

\* The Account _deserialize builds from one entry of "accounts"
AccountFromDict(acc_dict) ==
    LET txns == Get(acc_dict, "transactions", <<>>) IN
    [id |-> acc_dict.id, name |-> acc_dict.name,
     type |-> Get(acc_dict, "type", "cash"),
     color |-> acc_dict.color, opening_balance |-> acc_dict.opening_balance,
     status |-> Get(acc_dict, "status", "active"),
     image_path |-> Get(acc_dict, "image_path", <<>>),
     transactions |-> [i \in 1..Len(txns) |-> TransactionFromDict(txns[i])],
     valuations |-> DeserializeValuations(acc_dict, Len(Get(acc_dict, "valuations", <<>>))),
     purchase_amount |-> Get(acc_dict, "purchase_amount", 0),
     cash_holding |-> Get(acc_dict, "cash_holding", 0),
     evaluated_amount |-> Get(acc_dict, "evaluated_amount", 0),
     last_valuation_date |-> Get(acc_dict, "last_valuation_date", <<>>)]

\* self.accounts after the first k entries of "accounts", with its key order
RECURSIVE DeserializeAccounts(_, _)
DeserializeAccounts(dicts, k) ==
    IF k = 0 THEN [accounts |-> <<>>, order |-> <<>>]
    ELSE LET before == DeserializeAccounts(dicts, k - 1)
         IN  PutAccount(before.accounts, before.order, AccountFromDict(dicts[k]))

\* LedgerRepository._deserialize: the store built from the dict `raw`
Deserialize(raw) ==
    LET dicts == Get(raw, "accounts", <<>>)
        built == DeserializeAccounts(dicts, Len(dicts))
    IN  [accounts |-> built.accounts, order |-> built.order,
         salaries |-> Get(raw, "salaries", <<>>)]

----------------------------------------------------------------------------
\* Trade pairs

\* The valuations in the order they are stored, without the sort.
GetValuationsUnsorted(account_id) ==
    IF ~HasAccount(account_id) THEN <<>>
    ELSE accounts[account_id].valuations

\* LedgerService.get_valuations
GetValuations(account_id) ==
    IF ~HasAccount(account_id) THEN <<>>
    ELSE SortedByDate(accounts[account_id].valuations)

\* A sell met while the most recent pending buy is taken instead of the oldest.
PairStepLifo(st, valuation) ==
    IF valuation.transaction_type = "buy"
    THEN [st EXCEPT !.unpaired_buys = Append(@, valuation)]
    ELSE IF valuation.transaction_type = "sell" /\ st.unpaired_buys # <<>>
    THEN LET n == Len(st.unpaired_buys) IN
         [unpaired_buys |-> SubSeq(st.unpaired_buys, 1, n - 1),
          pairs |-> Append(st.pairs, TradePair(st.unpaired_buys[n], valuation))]
    ELSE IF valuation.transaction_type = "valuation" /\ st.unpaired_buys # <<>>
    THEN LET buy_val == Head(st.unpaired_buys)
             HasBuy(p) == p.buy_valuation.id = buy_val.id
             existing == SelectSeq(st.pairs, HasBuy)
             kept == IF existing # <<>> THEN ListRemove(st.pairs, Head(existing))
                     ELSE st.pairs
         IN  [st EXCEPT !.pairs = Append(kept, TradePair(buy_val, valuation))]
    ELSE st

\* A sell or a valuation met while no buy is pending is queued as if it were a buy.
PairStepQueuesUnmatched(st, valuation) ==
    IF valuation.transaction_type = "buy" \/ st.unpaired_buys = <<>>
    THEN [st EXCEPT !.unpaired_buys = Append(@, valuation)]
    ELSE IF valuation.transaction_type = "sell"
    THEN [unpaired_buys |-> Tail(st.unpaired_buys),
          pairs |-> Append(st.pairs, TradePair(Head(st.unpaired_buys), valuation))]
    ELSE LET buy_val == Head(st.unpaired_buys)
             HasBuy(p) == p.buy_valuation.id = buy_val.id
             existing == SelectSeq(st.pairs, HasBuy)
             kept == IF existing # <<>> THEN ListRemove(st.pairs, Head(existing))
                     ELSE st.pairs
         IN  [st EXCEPT !.pairs = Append(kept, TradePair(buy_val, valuation))]

\* A valuation that appends its pair without removing the pair it supersedes.
PairStepKeepsSuperseded(st, valuation) ==
    IF valuation.transaction_type = "buy"
    THEN [st EXCEPT !.unpaired_buys = Append(@, valuation)]
    ELSE IF valuation.transaction_type = "sell" /\ st.unpaired_buys # <<>>
    THEN [unpaired_buys |-> Tail(st.unpaired_buys),
          pairs |-> Append(st.pairs, TradePair(Head(st.unpaired_buys), valuation))]
    ELSE IF valuation.transaction_type = "valuation" /\ st.unpaired_buys # <<>>
    THEN [st EXCEPT !.pairs = Append(@, TradePair(Head(st.unpaired_buys), valuation))]
    ELSE st

\* A sell that pairs with the oldest pending buy and leaves it in the queue.
PairStepSellKeepsBuy(st, valuation) ==
    IF valuation.transaction_type = "buy"
    THEN [st EXCEPT !.unpaired_buys = Append(@, valuation)]
    ELSE IF valuation.transaction_type = "sell" /\ st.unpaired_buys # <<>>
    THEN [st EXCEPT !.pairs = Append(@, TradePair(Head(st.unpaired_buys), valuation))]
    ELSE IF valuation.transaction_type = "valuation" /\ st.unpaired_buys # <<>>
    THEN LET buy_val == Head(st.unpaired_buys)
             HasBuy(p) == p.buy_valuation.id = buy_val.id
             existing == SelectSeq(st.pairs, HasBuy)
             kept == IF existing # <<>> THEN ListRemove(st.pairs, Head(existing))
                     ELSE st.pairs
         IN  [st EXCEPT !.pairs = Append(kept, TradePair(buy_val, valuation))]
    ELSE st

\* A valuation that closes the oldest pending buy as a sell does.
PairStepValuationCloses(st, valuation) ==
    IF valuation.transaction_type = "buy"
    THEN [st EXCEPT !.unpaired_buys = Append(@, valuation)]
    ELSE IF valuation.transaction_type \in {"sell", "valuation"} /\ st.unpaired_buys # <<>>
    THEN [unpaired_buys |-> Tail(st.unpaired_buys),
          pairs |-> Append(st.pairs, TradePair(Head(st.unpaired_buys), valuation))]
    ELSE st

\* One iteration of the loop of get_trade_pairs over `valuation`, from the loop
\* state st = [unpaired_buys, pairs].
PairStep(st, valuation) ==
    IF valuation.transaction_type = "buy"
    THEN [st EXCEPT !.unpaired_buys = Append(@, valuation)]
    ELSE IF valuation.transaction_type = "sell"
    THEN IF st.unpaired_buys # <<>>
         THEN [unpaired_buys |-> Tail(st.unpaired_buys),
               pairs |-> Append(st.pairs, TradePair(Head(st.unpaired_buys), valuation))]
         ELSE st
    ELSE IF valuation.transaction_type = "valuation"
    THEN IF st.unpaired_buys # <<>>
         THEN LET buy_val == Head(st.unpaired_buys)
                  HasBuy(p) == p.buy_valuation.id = buy_val.id
                  existing == SelectSeq(st.pairs, HasBuy)
                  kept == IF existing # <<>>
                          THEN ListRemove(st.pairs, Head(existing))
                          ELSE st.pairs
              IN  [st EXCEPT !.pairs = Append(kept, TradePair(buy_val, valuation))]
         ELSE st
    ELSE st

\* The loop state of get_trade_pairs after the first k records of `valuations`.
RECURSIVE PairsState(_, _)
PairsState(valuations, k) ==
    IF k = 0 THEN [unpaired_buys |-> <<>>, pairs |-> <<>>]
    ELSE PairStep(PairsState(valuations, k - 1), valuations[k])

\* LedgerService.get_trade_pairs
GetTradePairs(account_id) ==
    LET valuations == GetValuations(account_id) IN
    PairsState(valuations, Len(valuations)).pairs

----------------------------------------------------------------------------
\* Derived values of an Account

\* min(s, key=evaluation_date) of a non-empty list: the first element whose key
\* is the least.
RECURSIVE MinByDate(_)
MinByDate(s) ==
    IF Len(s) = 1 THEN s[1]
    ELSE LET best == MinByDate(SubSeq(s, 1, Len(s) - 1))
             x == s[Len(s)]
         IN  IF StrLess(x.evaluation_date, best.evaluation_date) THEN x ELSE best

\* max that keeps the later of two elements with equal keys.
RECURSIVE MaxByDateLastWins(_)
MaxByDateLastWins(s) ==
    IF Len(s) = 1 THEN s[1]
    ELSE LET best == MaxByDateLastWins(SubSeq(s, 1, Len(s) - 1))
             x == s[Len(s)]
         IN  IF StrLess(x.evaluation_date, best.evaluation_date) THEN best ELSE x

\* max(s, key=evaluation_date) of a non-empty list: the first element whose key
\* is the greatest.
RECURSIVE MaxByDate(_)
MaxByDate(s) ==
    IF Len(s) = 1 THEN s[1]
    ELSE LET best == MaxByDate(SubSeq(s, 1, Len(s) - 1))
             x == s[Len(s)]
         IN  IF StrLess(best.evaluation_date, x.evaluation_date) THEN x ELSE best

\* Account.latest_valuation; None, the value of a call that returns nothing,
\* is << >>.
LatestValuation(account) ==
    IF account.valuations = <<>> THEN <<>> ELSE MaxByDate(account.valuations)

\* ((value - base) / base) * 100, as an exact fraction
Rate(value, base) == [num |-> (value - base) * 100, den |-> base]

\* 0.0
ZeroRate == [num |-> 0, den |-> 1]

\* The real-estate branch taking the latest buy instead of the earliest.
ReturnRateLatestBuy(account) ==
    LET IsBuy(v) == v.transaction_type = "buy"
        IsSell(v) == v.transaction_type = "sell"
        buy_valuations == SelectSeq(account.valuations, IsBuy)
        sell_valuations == SelectSeq(account.valuations, IsSell)
    IN  IF account.type = "investment" /\ account.valuations # <<>>
        THEN IF Contains(account.name, Marker)
             THEN IF /\ buy_valuations # <<>> /\ sell_valuations # <<>>
                     /\ MaxByDate(buy_valuations).evaluated_amount # 0
                  THEN Rate(MaxByDate(sell_valuations).evaluated_amount,
                            MaxByDate(buy_valuations).evaluated_amount)
                  ELSE ZeroRate
             ELSE IF account.purchase_amount # 0
             THEN Rate(LatestValuation(account).evaluated_amount, account.purchase_amount)
             ELSE ZeroRate
        ELSE ZeroRate

\* Account.return_rate
ReturnRate(account) ==
    LET IsBuy(v) == v.transaction_type = "buy"
        IsSell(v) == v.transaction_type = "sell"
        buy_valuations == SelectSeq(account.valuations, IsBuy)
        sell_valuations == SelectSeq(account.valuations, IsSell)
    IN  IF account.type = "investment" /\ account.valuations # <<>>
        THEN IF Contains(account.name, Marker)
             THEN \* the elif of line 118 belongs to this if: it is never reached
                  \* from here, whatever the buy and sell lists hold
                  IF buy_valuations # <<>> /\ sell_valuations # <<>>
                  THEN LET first_buy == MinByDate(buy_valuations)
                           last_sell == MaxByDate(sell_valuations)
                       IN  IF first_buy.evaluated_amount # 0
                           THEN Rate(last_sell.evaluated_amount, first_buy.evaluated_amount)
                           ELSE ZeroRate
                  ELSE ZeroRate
             ELSE IF account.purchase_amount # 0
             THEN LET current_value ==
                         IF account.valuations # <<>>
                         THEN LatestValuation(account).evaluated_amount
                         ELSE account.evaluated_amount
                  IN  Rate(current_value, account.purchase_amount)
             ELSE ZeroRate
        ELSE ZeroRate

\* A balance that adds every amount, whatever the transaction's type.
BalanceAddsExpenses(account) ==
    LET Amounts(ts) == [i \in 1..Len(ts) |-> ts[i].amount]
    IN  account.opening_balance + Sum(Amounts(account.transactions))

\* Account.balance
Balance(account) ==
    LET IsIncome(t) == t.type = "income"
        IsExpense(t) == t.type = "expense"
        Amounts(ts) == [i \in 1..Len(ts) |-> ts[i].amount]
        income == Sum(Amounts(SelectSeq(account.transactions, IsIncome)))
        expense == Sum(Amounts(SelectSeq(account.transactions, IsExpense)))
    IN  account.opening_balance + income - expense

\* Account.asset_value
AssetValue(account) ==
    IF account.type = "investment"
    THEN LET current_value ==
                IF account.valuations # <<>>
                THEN LatestValuation(account).evaluated_amount
                ELSE account.evaluated_amount
         IN  current_value + account.cash_holding
    ELSE Balance(account)

\* total_assets without the skip of consumption accounts: they count as cash does.
RECURSIVE TotalAssetsUpToCountsAll(_, _, _)
TotalAssetsUpToCountsAll(accs, ord, k) ==
    IF k = 0 THEN 0
    ELSE LET total == TotalAssetsUpToCountsAll(accs, ord, k - 1)
             acc == accs[ord[k]]
         IN  IF acc.type = "investment" THEN total + AssetValue(acc)
             ELSE total + Balance(acc)

\* The running total of total_assets after the first k accounts of the store
RECURSIVE TotalAssetsUpTo(_, _, _)
TotalAssetsUpTo(accs, ord, k) ==
    IF k = 0 THEN 0
    ELSE LET total == TotalAssetsUpTo(accs, ord, k - 1)
             acc == accs[ord[k]]
         IN  IF acc.type = "consumption" THEN total
             ELSE IF acc.type = "investment" THEN total + AssetValue(acc)
             ELSE total + Balance(acc)

\* LedgerService.total_assets over the store (accs, ord)
TotalAssets(accs, ord) == TotalAssetsUpTo(accs, ord, Len(ord))

\* The three categories monthly_income_breakdown knows, syllable by syllable
\* (savings, interest, spending: services.py lines 310, 312, 314)
Savings == <<"jeo", "chuk">>
Interest == <<"i", "ja">>
Spending == <<"ji", "chul">>

\* s.startswith(prefix)
StartsWith(s, prefix) ==
    Len(prefix) <= Len(s) /\ SubSeq(s, 1, Len(prefix)) = prefix

\* defaultdict's value for a month not met yet
NoIncome == [savings |-> 0, interest |-> 0, expense |-> 0]

\* The body of the inner loop of monthly_income_breakdown for one transaction:
\* monthly_data is the dict built so far (a function of the months met); `year`
\* is << >> when no year is given (None and "" are both falsy).
BreakdownStep(monthly_data, txn, year) ==
    LET year_month == Prefix(txn.date, 2)
        entry == IF year_month \in DOMAIN monthly_data
                 THEN monthly_data[year_month] ELSE NoIncome
        Put(e) == [k \in (DOMAIN monthly_data) \cup {year_month} |->
                      IF k = year_month THEN e ELSE monthly_data[k]]
    IN  IF year # <<>> /\ ~StartsWith(year_month, year) THEN monthly_data
        ELSE IF txn.type = "income"
        THEN IF txn.category = Savings
             THEN Put([entry EXCEPT !.savings = @ + txn.amount])
             ELSE IF txn.category = Interest
             THEN Put([entry EXCEPT !.interest = @ + txn.amount])
             ELSE monthly_data
        ELSE IF txn.type = "expense" /\ txn.category = Spending
        THEN Put([entry EXCEPT !.expense = @ + txn.amount])
        ELSE monthly_data

\* monthly_data after the first k transactions of one account
RECURSIVE BreakdownOfTxns(_, _, _, _)
BreakdownOfTxns(monthly_data, txns, k, year) ==
    IF k = 0 THEN monthly_data
    ELSE BreakdownStep(BreakdownOfTxns(monthly_data, txns, k - 1, year), txns[k], year)

\* monthly_income_breakdown without the skip of the accounts that are not cash.
RECURSIVE BreakdownOfAccountsAnyType(_, _, _, _)
BreakdownOfAccountsAnyType(accs, ord, k, year) ==
    IF k = 0 THEN <<>>
    ELSE LET before == BreakdownOfAccountsAnyType(accs, ord, k - 1, year)
             account == accs[ord[k]]
         IN  BreakdownOfTxns(before, account.transactions,
                             Len(account.transactions), year)

\* monthly_data after the first k accounts of the store
RECURSIVE BreakdownOfAccounts(_, _, _, _)
BreakdownOfAccounts(accs, ord, k, year) ==
    IF k = 0 THEN <<>>
    ELSE LET before == BreakdownOfAccounts(accs, ord, k - 1, year)
             account == accs[ord[k]]
         IN  IF account.type # "cash" THEN before
             ELSE BreakdownOfTxns(before, account.transactions,
                                  Len(account.transactions), year)

\* sorted(keys): the keys of a dict in ascending str order
RECURSIVE SortedKeys(_)
SortedKeys(keys) ==
    IF keys = {} THEN <<>>
    ELSE LET least == CHOOSE k \in keys : \A j \in keys : j = k \/ StrLess(k, j)
         IN  <<least>> \o SortedKeys(keys \ {least})

\* LedgerService.monthly_income_breakdown: the dict it returns, as the sequence
\* of its items [month, savings, interest, expense] in the dict's key order
MonthlyIncomeBreakdown(accs, ord, year) ==
    LET monthly_data == BreakdownOfAccounts(accs, ord, Len(ord), year)
        keys == SortedKeys(DOMAIN monthly_data)
    IN  [i \in 1..Len(keys) |->
            [month |-> keys[i], savings |-> monthly_data[keys[i]].savings,
             interest |-> monthly_data[keys[i]].interest,
             expense |-> monthly_data[keys[i]].expense]]

----------------------------------------------------------------------------
\* Service operations

\* add_valuation without the account-type guard.
AddValuationAnyType(account_id, amount, date, memo, transaction_type) ==
    LET args == <<account_id, amount, date, memo, transaction_type>> IN
    IF ~HasAccount(account_id)
    THEN /\ call' = [op |-> "add_valuation", args |-> args,
                     outcome |-> "AccountNotFound", ret |-> <<>>]
         /\ UNCHANGED <<store, nextId>>
    ELSE LET account == accounts[account_id]
             valuation == ValuationRecord(nextId, account_id, amount, date, memo,
                                          transaction_type)
             updated == [account EXCEPT
                            !.valuations = Append(@, valuation),
                            !.evaluated_amount = amount,
                            !.last_valuation_date = DateOnly(date)]
         IN  /\ Len(account.valuations) < MaxVals
             /\ nextId' = nextId + 1
             /\ RepoUpdateAccount(updated)
             /\ call' = [op |-> "add_valuation", args |-> args,
                         outcome |-> "ok", ret |-> valuation]

\* add_valuation mirroring the latest-dated record, as delete_valuation does.
AddValuationMirrorsLatest(account_id, amount, date, memo, transaction_type) ==
    LET args == <<account_id, amount, date, memo, transaction_type>> IN
    IF ~HasAccount(account_id)
    THEN /\ call' = [op |-> "add_valuation", args |-> args,
                     outcome |-> "AccountNotFound", ret |-> <<>>]
         /\ UNCHANGED <<store, nextId>>
    ELSE IF accounts[account_id].type # "investment"
    THEN /\ call' = [op |-> "add_valuation", args |-> args,
                     outcome |-> "WrongAccountType", ret |-> <<>>]
         /\ UNCHANGED <<store, nextId>>
    ELSE LET account == accounts[account_id]
             valuation == ValuationRecord(nextId, account_id, amount, date, memo,
                                          transaction_type)
             appended == [account EXCEPT !.valuations = Append(@, valuation)]
             latest == LatestValuation(appended)
             updated == [appended EXCEPT
                            !.evaluated_amount = latest.evaluated_amount,
                            !.last_valuation_date = DateOnly(latest.evaluation_date)]
         IN  /\ Len(account.valuations) < MaxVals
             /\ nextId' = nextId + 1
             /\ RepoUpdateAccount(updated)
             /\ call' = [op |-> "add_valuation", args |-> args,
                         outcome |-> "ok", ret |-> valuation]

\* LedgerService.add_valuation
AddValuation(account_id, amount, date, memo, transaction_type) ==
    LET args == <<account_id, amount, date, memo, transaction_type>> IN
    IF ~HasAccount(account_id)
    THEN /\ call' = [op |-> "add_valuation", args |-> args,
                     outcome |-> "AccountNotFound", ret |-> <<>>]
         /\ UNCHANGED <<store, nextId>>
    ELSE IF accounts[account_id].type # "investment"
    THEN /\ call' = [op |-> "add_valuation", args |-> args,
                     outcome |-> "WrongAccountType", ret |-> <<>>]
         /\ UNCHANGED <<store, nextId>>
    ELSE LET account == accounts[account_id]
             valuation == ValuationRecord(nextId, account_id, amount, date, memo,
                                          transaction_type)
             updated == [account EXCEPT
                            !.valuations = Append(@, valuation),
                            !.evaluated_amount = amount,
                            !.last_valuation_date = DateOnly(date)]
         IN  /\ Len(account.valuations) < MaxVals
             /\ nextId' = nextId + 1
             /\ RepoUpdateAccount(updated)
             /\ call' = [op |-> "add_valuation", args |-> args,
                         outcome |-> "ok", ret |-> valuation]

\* A call of LedgerService.get_trade_pairs
CallGetTradePairs(account_id) ==
    /\ call' = [op |-> "get_trade_pairs", args |-> <<account_id>>,
                outcome |-> "ok", ret |-> GetTradePairs(account_id)]
    /\ UNCHANGED <<store, nextId>>

\* A read of Account.return_rate on the account the service returns for the id
CallReturnRate(account_id) ==
    /\ HasAccount(account_id)
    /\ call' = [op |-> "return_rate", args |-> <<account_id>>,
                outcome |-> "ok", ret |-> ReturnRate(accounts[account_id])]
    /\ UNCHANGED <<store, nextId>>

\* add_account testing the name as given, not stripped.
AddAccountNoStrip(name, type_, color, opening_balance, image_path) ==
    LET args == <<name, type_, color, opening_balance, image_path>> IN
    IF name = <<>>
    THEN /\ call' = [op |-> "add_account", args |-> args,
                     outcome |-> "EmptyName", ret |-> <<>>]
         /\ UNCHANGED <<store, nextId>>
    ELSE LET account == Account(nextId, name, type_, color, opening_balance,
                                "active", image_path)
         IN  /\ nextId <= MaxIds
             /\ nextId' = nextId + 1
             /\ RepoUpdateAccount(account)
             /\ call' = [op |-> "add_account", args |-> args,
                         outcome |-> "ok", ret |-> account]

\* LedgerService.add_account
AddAccount(name, type_, color, opening_balance, image_path) ==
    LET args == <<name, type_, color, opening_balance, image_path>> IN
    IF Strip(name) = <<>>
    THEN /\ call' = [op |-> "add_account", args |-> args,
                     outcome |-> "EmptyName", ret |-> <<>>]
         /\ UNCHANGED <<store, nextId>>
    ELSE LET account == Account(nextId, name, type_, color, opening_balance,
                                "active", image_path)
         IN  /\ nextId <= MaxIds
             /\ nextId' = nextId + 1
             /\ RepoUpdateAccount(account)
             /\ call' = [op |-> "add_account", args |-> args,
                         outcome |-> "ok", ret |-> account]

\* add_transaction with the type checked before the amount.
AddTransactionKindFirst(account_id, type_, amount, category, memo, date) ==
    LET args == <<account_id, type_, amount, category, memo, date>> IN
    IF type_ \notin {"income", "expense"}
    THEN /\ call' = [op |-> "add_transaction", args |-> args,
                     outcome |-> "InvalidKind", ret |-> <<>>]
         /\ UNCHANGED <<store, nextId>>
    ELSE IF amount < 0
    THEN /\ call' = [op |-> "add_transaction", args |-> args,
                     outcome |-> "NegativeAmount", ret |-> <<>>]
         /\ UNCHANGED <<store, nextId>>
    ELSE LET txn == Transaction(nextId, account_id, type_, amount, category, memo, date)
         IN  /\ nextId <= MaxIds
             /\ nextId' = nextId + 1
             /\ call' = [op |-> "add_transaction", args |-> args,
                         outcome |-> "ok", ret |-> txn]
             /\ IF HasAccount(account_id)
                THEN RepoUpdateAccount([accounts[account_id] EXCEPT
                                           !.transactions = Append(@, txn)])
                ELSE UNCHANGED store

\* add_transaction with the guard of Transaction.validate: amount <= 0 is refused.
AddTransactionRefusesZero(account_id, type_, amount, category, memo, date) ==
    LET args == <<account_id, type_, amount, category, memo, date>> IN
    IF amount <= 0
    THEN /\ call' = [op |-> "add_transaction", args |-> args,
                     outcome |-> "NegativeAmount", ret |-> <<>>]
         /\ UNCHANGED <<store, nextId>>
    ELSE IF type_ \notin {"income", "expense"}
    THEN /\ call' = [op |-> "add_transaction", args |-> args,
                     outcome |-> "InvalidKind", ret |-> <<>>]
         /\ UNCHANGED <<store, nextId>>
    ELSE LET txn == Transaction(nextId, account_id, type_, amount, category, memo, date)
         IN  /\ nextId <= MaxIds
             /\ nextId' = nextId + 1
             /\ call' = [op |-> "add_transaction", args |-> args,
                         outcome |-> "ok", ret |-> txn]
             /\ IF HasAccount(account_id)
                THEN RepoUpdateAccount([accounts[account_id] EXCEPT
                                           !.transactions = Append(@, txn)])
                ELSE UNCHANGED store

\* add_transaction that refuses an unknown account, as add_valuation does.
AddTransactionChecksAccount(account_id, type_, amount, category, memo, date) ==
    LET args == <<account_id, type_, amount, category, memo, date>> IN
    IF amount < 0
    THEN /\ call' = [op |-> "add_transaction", args |-> args,
                     outcome |-> "NegativeAmount", ret |-> <<>>]
         /\ UNCHANGED <<store, nextId>>
    ELSE IF type_ \notin {"income", "expense"}
    THEN /\ call' = [op |-> "add_transaction", args |-> args,
                     outcome |-> "InvalidKind", ret |-> <<>>]
         /\ UNCHANGED <<store, nextId>>
    ELSE IF ~HasAccount(account_id)
    THEN /\ call' = [op |-> "add_transaction", args |-> args,
                     outcome |-> "AccountNotFound", ret |-> <<>>]
         /\ UNCHANGED <<store, nextId>>
    ELSE LET txn == Transaction(nextId, account_id, type_, amount, category, memo, date)
         IN  /\ nextId <= MaxIds
             /\ nextId' = nextId + 1
             /\ call' = [op |-> "add_transaction", args |-> args,
                         outcome |-> "ok", ret |-> txn]
             /\ RepoUpdateAccount([accounts[account_id] EXCEPT
                                      !.transactions = Append(@, txn)])

\* LedgerService.add_transaction, with LedgerRepository.add_transaction: the
\* transaction is built (an id is drawn) before the repository looks the
\* account up; with no such account nothing is appended and nothing is saved.
AddTransaction(account_id, type_, amount, category, memo, date) ==
    LET args == <<account_id, type_, amount, category, memo, date>> IN
    IF amount < 0
    THEN /\ call' = [op |-> "add_transaction", args |-> args,
                     outcome |-> "NegativeAmount", ret |-> <<>>]
         /\ UNCHANGED <<store, nextId>>
    ELSE IF type_ \notin {"income", "expense"}
    THEN /\ call' = [op |-> "add_transaction", args |-> args,
                     outcome |-> "InvalidKind", ret |-> <<>>]
         /\ UNCHANGED <<store, nextId>>
    ELSE LET txn == Transaction(nextId, account_id, type_, amount, category, memo, date)
         IN  /\ nextId <= MaxIds
             /\ nextId' = nextId + 1
             /\ call' = [op |-> "add_transaction", args |-> args,
                         outcome |-> "ok", ret |-> txn]
             /\ IF HasAccount(account_id)
                THEN RepoUpdateAccount([accounts[account_id] EXCEPT
                                           !.transactions = Append(@, txn)])
                ELSE UNCHANGED store

\* A call of Account.balance on the account the service returns for the id
CallBalance(account_id) ==
    /\ HasAccount(account_id)
    /\ call' = [op |-> "balance", args |-> <<account_id>>,
                outcome |-> "ok", ret |-> Balance(accounts[account_id])]
    /\ UNCHANGED <<store, nextId>>

\* delete_valuation mirroring the last stored record, as add_valuation does.
DeleteValuationMirrorsLastStored(account_id, valuation_id) ==
    LET args == <<account_id, valuation_id>> IN
    IF ~HasAccount(account_id)
    THEN /\ call' = [op |-> "delete_valuation", args |-> args,
                     outcome |-> "AccountNotFound", ret |-> <<>>]
         /\ UNCHANGED <<store, nextId>>
    ELSE LET account == accounts[account_id]
             IsKept(v) == v.id # valuation_id
             kept == [account EXCEPT !.valuations = SelectSeq(@, IsKept)]
             updated ==
                 IF kept.valuations # <<>>
                 THEN LET latest == kept.valuations[Len(kept.valuations)] IN
                      [kept EXCEPT
                          !.evaluated_amount = latest.evaluated_amount,
                          !.last_valuation_date = DateOnly(latest.evaluation_date)]
                 ELSE [kept EXCEPT !.evaluated_amount = 0,
                                   !.last_valuation_date = <<>>]
         IN  /\ RepoUpdateAccount(updated)
             /\ call' = [op |-> "delete_valuation", args |-> args,
                         outcome |-> "ok", ret |-> <<>>]
             /\ UNCHANGED nextId

\* delete_valuation that leaves the account alone when no record has the id.
DeleteValuationSkipsUnmatched(account_id, valuation_id) ==
    LET args == <<account_id, valuation_id>> IN
    IF ~HasAccount(account_id)
    THEN /\ call' = [op |-> "delete_valuation", args |-> args,
                     outcome |-> "AccountNotFound", ret |-> <<>>]
         /\ UNCHANGED <<store, nextId>>
    ELSE LET account == accounts[account_id]
             IsKept(v) == v.id # valuation_id
             kept == [account EXCEPT !.valuations = SelectSeq(@, IsKept)]
             updated ==
                 IF kept.valuations = account.valuations THEN account
                 ELSE IF kept.valuations # <<>>
                 THEN LET latest == LatestValuation(kept) IN
                      [kept EXCEPT
                          !.evaluated_amount = latest.evaluated_amount,
                          !.last_valuation_date = DateOnly(latest.evaluation_date)]
                 ELSE [kept EXCEPT !.evaluated_amount = 0,
                                   !.last_valuation_date = <<>>]
         IN  /\ RepoUpdateAccount(updated)
             /\ call' = [op |-> "delete_valuation", args |-> args,
                         outcome |-> "ok", ret |-> <<>>]
             /\ UNCHANGED nextId

\* LedgerService.delete_valuation
DeleteValuation(account_id, valuation_id) ==
    LET args == <<account_id, valuation_id>> IN
    IF ~HasAccount(account_id)
    THEN /\ call' = [op |-> "delete_valuation", args |-> args,
                     outcome |-> "AccountNotFound", ret |-> <<>>]
         /\ UNCHANGED <<store, nextId>>
    ELSE LET account == accounts[account_id]
             IsKept(v) == v.id # valuation_id
             kept == [account EXCEPT !.valuations = SelectSeq(@, IsKept)]
             updated ==
                 IF kept.valuations # <<>>
                 THEN LET latest == LatestValuation(kept) IN
                      [kept EXCEPT
                          !.evaluated_amount = latest.evaluated_amount,
                          !.last_valuation_date = DateOnly(latest.evaluation_date)]
                 ELSE [kept EXCEPT !.evaluated_amount = 0,
                                   !.last_valuation_date = <<>>]
         IN  /\ RepoUpdateAccount(updated)
             /\ call' = [op |-> "delete_valuation", args |-> args,
                         outcome |-> "ok", ret |-> <<>>]
             /\ UNCHANGED nextId

\* update_account that refuses an account whose id is not stored.
UpdateAccountChecksAccount(account) ==
    IF ~HasAccount(account.id)
    THEN /\ call' = [op |-> "update_account", args |-> <<account>>,
                     outcome |-> "AccountNotFound", ret |-> <<>>]
         /\ UNCHANGED <<store, nextId>>
    ELSE /\ RepoUpdateAccount(account)
         /\ call' = [op |-> "update_account", args |-> <<account>>,
                     outcome |-> "ok", ret |-> <<>>]
         /\ UNCHANGED nextId

\* LedgerService.update_account
UpdateAccount(account) ==
    /\ RepoUpdateAccount(account)
    /\ call' = [op |-> "update_account", args |-> <<account>>,
                outcome |-> "ok", ret |-> <<>>]
    /\ UNCHANGED nextId

\* The account the edit dialog hands to update_account: the stored account with
\* the dialog's values `data` (the tuple of get_data, by field name) written
\* into it, opening_balance shifted so that balance() becomes data.balance.
Edited(account, data) ==
    LET balance_diff == data.balance - Balance(account)
        common == [account EXCEPT
                      !.opening_balance = @ + balance_diff,
                      !.name = data.name, !.type = data.type,
                      !.color = data.color, !.image_path = data.image_path]
    IN  IF data.type = "investment"
        THEN [common EXCEPT
                 !.purchase_amount = data.purchase_amount,
                 !.cash_holding = data.cash_holding,
                 !.evaluated_amount = data.evaluated_amount,
                 !.last_valuation_date = data.valuation_date]
        ELSE common

\* delete_account that refuses an id that is not stored, as delete_valuation does.
DeleteAccountChecksAccount(account_id) ==
    IF ~HasAccount(account_id)
    THEN /\ call' = [op |-> "delete_account", args |-> <<account_id>>,
                     outcome |-> "AccountNotFound", ret |-> <<>>]
         /\ UNCHANGED <<store, nextId>>
    ELSE /\ RepoDeleteAccount(account_id)
         /\ call' = [op |-> "delete_account", args |-> <<account_id>>,
                     outcome |-> "ok", ret |-> <<>>]
         /\ UNCHANGED nextId

\* LedgerService.delete_account
DeleteAccount(account_id) ==
    /\ RepoDeleteAccount(account_id)
    /\ call' = [op |-> "delete_account", args |-> <<account_id>>,
                outcome |-> "ok", ret |-> <<>>]
    /\ UNCHANGED nextId

\* toggle_account_status that only closes: a dead account stays dead.
ToggleAccountStatusOnlyCloses(account_id) ==
    /\ call' = [op |-> "toggle_account_status", args |-> <<account_id>>,
                outcome |-> "ok", ret |-> <<>>]
    /\ UNCHANGED nextId
    /\ IF HasAccount(account_id)
       THEN RepoUpdateAccount([accounts[account_id] EXCEPT !.status = "dead"])
       ELSE UNCHANGED store

\* LedgerService.toggle_account_status
ToggleAccountStatus(account_id) ==
    /\ call' = [op |-> "toggle_account_status", args |-> <<account_id>>,
                outcome |-> "ok", ret |-> <<>>]
    /\ UNCHANGED nextId
    /\ IF HasAccount(account_id)
       THEN LET account == accounts[account_id] IN
            RepoUpdateAccount([account EXCEPT
                !.status = IF account.status = "active" THEN "dead" ELSE "active"])
       ELSE UNCHANGED store

\* LedgerService.add_salary
AddSalary(amount, month, person) ==
    LET args == <<amount, month, person>> IN
    IF amount <= 0
    THEN /\ call' = [op |-> "add_salary", args |-> args,
                     outcome |-> "NonPositiveAmount", ret |-> <<>>]
         /\ UNCHANGED <<store, nextId>>
    ELSE /\ RepoAddSalary(amount, month, person)
         /\ call' = [op |-> "add_salary", args |-> args,
                     outcome |-> "ok", ret |-> <<>>]
         /\ UNCHANGED nextId

\* A call of LedgerService.total_assets
CallTotalAssets ==
    /\ call' = [op |-> "total_assets", args |-> <<>>,
                outcome |-> "ok", ret |-> TotalAssets(accounts, order)]
    /\ UNCHANGED <<store, nextId>>

\* A call of LedgerService.monthly_income_breakdown
CallMonthlyIncomeBreakdown(year) ==
    /\ call' = [op |-> "monthly_income_breakdown", args |-> <<year>>,
                outcome |-> "ok",
                ret |-> MonthlyIncomeBreakdown(accounts, order, year)]
    /\ UNCHANGED <<store, nextId>>

\* A call of Account.validate on the account the service returns for the id
CallValidate(account_id) ==
    /\ HasAccount(account_id)
    /\ call' = [op |-> "validate", args |-> <<account_id>>,
                outcome |-> AccountValidate(accounts[account_id]), ret |-> <<>>]
    /\ UNCHANGED <<store, nextId>>

\* Between two calls the file becomes writable, read-only ("denied": it cannot
\* be opened for writing) or the volume full ("full": the write breaks off).
MediumBecomes(m) ==
    /\ medium # m
    /\ medium' = m
    /\ UNCHANGED <<accounts, order, salaries, persisted, disk, alerts, nextId, call>>

----------------------------------------------------------------------------
\* Inputs

D1 == <<2024, 1, 10, 0>>
D2 == <<2024, 2, 10, 0>>
D3 == <<2024, 2, 20, 0>>

ValTypes == {"buy", "sell", "valuation"}

NoCall == [op |-> "none", args |-> <<>>, outcome |-> "ok", ret |-> <<>>]

\* The store LedgerRepository.__init__ builds from a ledger holding `accs`, a
\* sequence of accounts, and the salary entries `sal`.
Loaded(accs, sal) ==
    LET ids == [i \in 1..Len(accs) |-> accs[i].id]
        byId == [k \in {accs[i].id : i \in 1..Len(accs)} |->
                    (CHOOSE i \in 1..Len(accs) : accs[i].id = k)]
        m == [k \in DOMAIN byId |-> accs[byId[k]]]
    IN  /\ accounts = m
        /\ order = ids
        /\ salaries = sal
        /\ persisted = Serialize(m, ids, sal)
        /\ disk = Serialize(m, ids, sal)
        /\ alerts = 0
        /\ medium = "ok"
        /\ nextId = 1 + Len(accs)
        /\ call = NoCall

\* A ledger file as a former run saved it: the accounts `accs` in file order and
\* the salary entries `sal`.
LedgerFile(accs, sal) ==
    [accounts |-> [i \in 1..Len(accs) |-> AsDictAccount(accs[i])], salaries |-> sal]

\* The store LedgerRepository.__init__ builds from the ledger file `raw`, whose
\* ids no later gen_id() repeats.
LoadedFrom(raw) ==
    LET built == Deserialize(raw) IN
    /\ accounts = built.accounts
    /\ order = built.order
    /\ salaries = built.salaries
    /\ persisted = raw
    /\ disk = raw
    /\ alerts = 0
    /\ medium = "ok"
    /\ nextId = 1
    /\ call = NoCall

----------------------------------------------------------------------------
\* The trade-pair specification: one investment account, valuations added in
\* any order, trade pairs requested at any time.

PairDates == {D1, D2, D3}
PairAmounts == {100, 130}
PairIds == {1, 2}

InitPairs ==
    Loaded(<<Account(1, <<"K", "R", "X">>, "investment", "#3498db", 0, "active", <<>>)>>, <<>>)

NextPairs ==
    \/ \E amount \in PairAmounts, date \in PairDates, type \in ValTypes :
          AddValuation(1, amount, date, <<>>, type)
    \/ \E id \in PairIds : CallGetTradePairs(id)

SpecPairs == InitPairs /\ [][NextPairs]_vars

----------------------------------------------------------------------------
\* The return-rate specification: one account as the ledger file holds it (a
\* real-estate name or not, a cost basis or none), valuations added in any
\* order, the return rate read at any time.

RateDates == {D1, D2}
RateAmounts == {0, 1000, 1200}
RealEstateName == <<"bu", "dong", "san", "1">>
StockName == <<"K", "R", "X">>

RateAccounts ==
    {[Account(1, name, type, "#3498db", 0, "active", <<>>) EXCEPT !.purchase_amount = p] :
        name \in {RealEstateName, StockName}, type \in {"investment"}, p \in {0, 1000}}

InitRate == \E account \in RateAccounts : Loaded(<<account>>, <<>>)

NextRate ==
    \/ \E amount \in RateAmounts, date \in RateDates, type \in ValTypes :
          AddValuation(1, amount, date, <<>>, type)
    \/ CallReturnRate(1)

SpecRate == InitRate /\ [][NextRate]_vars

----------------------------------------------------------------------------
\* The ledger specification: from a ledger file with one salary entry and no
\* account, accounts are opened and transactions added to stored and to unknown
\* accounts, with valid and invalid amounts and types; balances are read at any
\* time.

AccountNames == {<<"p", "a", "y">>, <<" ", "\t">>}
AccountTypes == {"cash"}
OpeningBalances == {100}
UnknownId == 0
TxnTypes == {"income", "expense", "transfer"}
TxnAmounts == {-5, 0, 10, 25}

LedgerSalaries == <<[amount |-> 3000, month |-> <<2024, 1>>, person |-> <<"A">>]>>

Init == Loaded(<<>>, LedgerSalaries)

Next ==
    \/ \E name \in AccountNames, type \in AccountTypes, opening \in OpeningBalances :
          AddAccount(name, type, "#3498db", opening, <<>>)
    \/ \E id \in (DOMAIN accounts) \cup {UnknownId}, type \in TxnTypes, amount \in TxnAmounts :
          AddTransaction(id, type, amount, <<"e", "t", "c">>, <<>>, D1)
    \/ \E id \in DOMAIN accounts : CallBalance(id)

Spec == Init /\ [][Next]_vars

----------------------------------------------------------------------------
\* The valuation specification: a ledger with an investment account and a cash
\* account that keeps mirror fields from its time as an investment account;
\* valuations are added in any date order to the stored accounts and to an
\* unknown one, and deleted by id.

InvId == 101
CashId == 102
D2Noon == <<2024, 2, 10, 43200>>
ValDates == {D1, D2, D2Noon}
ValAmounts == {100, 130}
ValKinds == {"valuation"}

ValLedger ==
    LedgerFile(
        <<Account(InvId, <<"K", "R", "X">>, "investment", "#3498db", 0, "active", <<>>),
          [Account(CashId, <<"p", "a", "y">>, "cash", "#2ecc71", 100, "active", <<>>)
              EXCEPT !.evaluated_amount = 50, !.last_valuation_date = DateOnly(D1)]>>,
        <<>>)

InitVals == LoadedFrom(ValLedger)

NextVals ==
    \/ \E amount \in ValAmounts, date \in ValDates, type \in ValKinds :
          /\ nextId <= MaxIds
          /\ AddValuation(InvId, amount, date, <<>>, type)
    \/ \E id \in {CashId, UnknownId} : AddValuation(id, 130, D1, <<>>, "valuation")
    \/ \E valuation_id \in 1..MaxIds : DeleteValuation(InvId, valuation_id)
    \/ \E id \in {CashId, UnknownId} : DeleteValuation(id, 1)

SpecVals == InitVals /\ [][NextVals]_vars

----------------------------------------------------------------------------
\* The store specification: every mutating operation of the service, on a
\* ledger file that holds an investment account with a valuation saved without
\* a transaction type (null), a cash account with an income, and one salary
\* entry.  Accounts are opened, edited through the edit dialog, closed, reopened
\* and deleted; transactions, valuations and salaries are added; valuations are
\* deleted.

StoreName == <<"c", "a", "r">>

StoreLedger ==
    LedgerFile(
        <<[Account(InvId, <<"K", "R", "X">>, "investment", "#3498db", 0, "active", <<>>)
              EXCEPT !.valuations = <<ValuationRecord(201, InvId, 100, D1, <<>>, None)>>,
                     !.evaluated_amount = 100, !.last_valuation_date = DateOnly(D1)],
          [Account(CashId, <<"p", "a", "y">>, "cash", "#2ecc71", 100, "active", <<>>)
              EXCEPT !.transactions =
                        <<Transaction(301, CashId, "income", 25, Savings, <<>>, D1)>>]>>,
        LedgerSalaries)

\* The values the edit dialog returns for an account whose balance is set to 0
\* and whose colour, cost basis and cash holding are changed.
EditData(account) ==
    [name |-> account.name, type |-> account.type, balance |-> 0,
     color |-> "#000000", image_path |-> account.image_path,
     purchase_amount |-> 1000, cash_holding |-> 10,
     evaluated_amount |-> account.evaluated_amount,
     valuation_date |-> account.last_valuation_date]

ValuationIds(account) == {account.valuations[i].id : i \in 1..Len(account.valuations)}

InitStore == LoadedFrom(StoreLedger)

NextStore ==
    \/ /\ nextId <= MaxDraws
       /\ AddAccount(StoreName, "consumption", "#e74c3c", 50, <<>>)
    \/ /\ HasAccount(CashId)
       /\ UpdateAccount(Edited(accounts[CashId], EditData(accounts[CashId])))
    \/ \E id \in (DOMAIN accounts) \cup {UnknownId} : DeleteAccount(id)
    \/ \E id \in (DOMAIN accounts) \cup {UnknownId} : ToggleAccountStatus(id)
    \/ /\ nextId <= MaxDraws
       /\ AddTransaction(CashId, "expense", 30, Spending, <<>>, D2)
    \/ /\ Len(salaries) < MaxSalaries
       /\ AddSalary(3000, <<2024, 2>>, <<"B">>)
    \/ /\ nextId <= MaxDraws
       /\ AddValuation(InvId, 130, D2, <<>>, "sell")
    \/ \E id \in DOMAIN accounts :
          \E valuation_id \in ValuationIds(accounts[id]) :
             DeleteValuation(id, valuation_id)

SpecStore == InitStore /\ [][NextStore]_vars

----------------------------------------------------------------------------
\* The assets specification: a ledger with an investment account that has a
\* cash holding and a legacy evaluated amount but no valuation yet, a second
\* one whose latest-dated valuation is not the one stored last, a cash account
\* with an income, and a consumption account whose balance is negative.
\* Consumption accounts are opened, edited, deleted and given transactions;
\* the first investment account gets valuations and the cash account expenses;
\* the total of the assets is read at any time.

ConsId == 103
FundId == 104
AssetDates == {D1, D2}
AssetAmounts == {300, 700}

AssetLedger ==
    LedgerFile(
        <<[Account(InvId, <<"K", "R", "X">>, "investment", "#3498db", 0, "active", <<>>)
              EXCEPT !.evaluated_amount = 500, !.cash_holding = 10,
                     !.last_valuation_date = DateOnly(D1)],
          [Account(CashId, <<"p", "a", "y">>, "cash", "#2ecc71", 100, "active", <<>>)
              EXCEPT !.transactions =
                        <<Transaction(301, CashId, "income", 25, Savings, <<>>, D1)>>],
          [Account(ConsId, <<"c", "a", "r", "d">>, "consumption", "#e74c3c", 0, "active", <<>>)
              EXCEPT !.transactions =
                        <<Transaction(302, ConsId, "expense", 40, Spending, <<>>, D1)>>],
          [Account(FundId, <<"f", "u", "n", "d">>, "investment", "#9b59b6", 0, "active", <<>>)
              EXCEPT !.valuations =
                        <<ValuationRecord(201, FundId, 300, D2, <<>>, "valuation"),
                          ValuationRecord(202, FundId, 700, D1, <<>>, "valuation")>>,
                     !.evaluated_amount = 700, !.last_valuation_date = DateOnly(D1)]>>,
        <<>>)

\* The values the edit dialog returns for an account whose balance is set to
\* new_balance, everything else left as it is.
EditBalance(account, new_balance) ==
    [name |-> account.name, type |-> account.type, balance |-> new_balance,
     color |-> account.color, image_path |-> account.image_path,
     purchase_amount |-> account.purchase_amount,
     cash_holding |-> account.cash_holding,
     evaluated_amount |-> account.evaluated_amount,
     valuation_date |-> account.last_valuation_date]

ConsumptionIds == {id \in DOMAIN accounts : accounts[id].type = "consumption"}

InitAssets == LoadedFrom(AssetLedger)

NextAssets ==
    \/ /\ nextId <= MaxDraws
       /\ \E opening \in {-20, 50} :
             AddAccount(StoreName, "consumption", "#e74c3c", opening, <<>>)
    \/ \E id \in ConsumptionIds, new_balance \in {-70, 0} :
          UpdateAccount(Edited(accounts[id], EditBalance(accounts[id], new_balance)))
    \/ \E id \in ConsumptionIds : DeleteAccount(id)
    \/ \E id \in ConsumptionIds, type \in {"income", "expense"} :
          /\ nextId <= MaxDraws
          /\ AddTransaction(id, type, 30, Spending, <<>>, D2)
    \/ /\ nextId <= MaxDraws
       /\ AddTransaction(CashId, "expense", 30, Spending, <<>>, D2)
    \/ \E amount \in AssetAmounts, date \in AssetDates :
          /\ nextId <= MaxDraws
          /\ AddValuation(InvId, amount, date, <<>>, "valuation")
    \/ CallTotalAssets

SpecAssets == InitAssets /\ [][NextAssets]_vars

----------------------------------------------------------------------------
\* The breakdown specification: a ledger with a cash account that holds a
\* savings income of February 2024 and a consumption account that holds a
\* spending expense; incomes and expenses of every category, dated in 2023 and
\* in 2024, are added to both, and the monthly breakdown is asked for a year
\* and for all years.

D0 == <<2023, 12, 31, 0>>
Other == <<"e", "t", "c">>
BreakdownDates == {D0, D1, D2}
BreakdownCategories == {Savings, Interest, Spending, Other}
BreakdownYears == {<<2024>>, <<>>}

BreakdownLedger ==
    LedgerFile(
        <<[Account(CashId, <<"p", "a", "y">>, "cash", "#2ecc71", 100, "active", <<>>)
              EXCEPT !.transactions =
                        <<Transaction(301, CashId, "income", 25, Savings, <<>>, D2)>>],
          [Account(ConsId, <<"c", "a", "r", "d">>, "consumption", "#e74c3c", 0, "active", <<>>)
              EXCEPT !.transactions =
                        <<Transaction(302, ConsId, "expense", 40, Spending, <<>>, D1)>>]>>,
        <<>>)

InitBreakdown == LoadedFrom(BreakdownLedger)

NextBreakdown ==
    \/ \E id \in {CashId, ConsId}, type \in {"income", "expense"},
          category \in BreakdownCategories, date \in BreakdownDates :
          /\ nextId <= MaxDraws
          /\ AddTransaction(id, type, 10, category, <<>>, date)
    \/ \E year \in BreakdownYears : CallMonthlyIncomeBreakdown(year)

SpecBreakdown == InitBreakdown /\ [][NextBreakdown]_vars

----------------------------------------------------------------------------
\* The save specification: the store specification's ledger file on a medium
\* that becomes read-only or full and writable again at any time; the cash
\* account is closed and reopened, edited with and without a change, and given
\* transactions; the investment account loses its valuation and is deleted;
\* salaries are added.

Media == {"ok", "denied", "full"}

\* An alert can still be shown.
CanAlert == medium = "ok" \/ alerts < MaxAlerts

InitSave == LoadedFrom(StoreLedger)

NextSave ==
    \/ \E m \in Media : MediumBecomes(m)
    \/ \E new_balance \in {0, 125} :
          /\ HasAccount(CashId) /\ CanAlert
          /\ UpdateAccount(Edited(accounts[CashId], EditBalance(accounts[CashId], new_balance)))
    \/ /\ CanAlert
       /\ DeleteAccount(InvId)
    \/ \E id \in {CashId, UnknownId} :
          /\ CanAlert
          /\ ToggleAccountStatus(id)
    \/ /\ nextId <= MaxDraws /\ CanAlert
       /\ AddTransaction(CashId, "expense", 30, Spending, <<>>, D2)
    \/ /\ Len(salaries) < MaxSalaries /\ CanAlert
       /\ AddSalary(3000, <<2024, 2>>, <<"B">>)
    \/ /\ HasAccount(InvId) /\ CanAlert
       /\ \E valuation_id \in ValuationIds(accounts[InvId]) :
             DeleteValuation(InvId, valuation_id)

SpecSave == InitSave /\ [][NextSave]_vars

----------------------------------------------------------------------------
\* The validation specification: a ledger file with one account whose name,
\* type and colour are well-formed or not, holding no transaction or one with
\* an impossible date, and no valuation or a negative one; transactions with
\* positive and zero amounts are added, and the account is validated at any
\* time.

Blue == <<"#", "3", "4", "9", "8", "d", "b">>

\* Colours of seven characters that start with #, and colours that do not
ValidateColors ==
    {Blue,
     <<"#", "G", "G", "G", "G", "G", "G">>,
     <<"#", "1", "2", " ", "4", "5", "6">>,
     <<"3", "4", "9", "8", "d", "b", "#">>,
     <<"#", "f", "f", "f">>,
     <<>>}

ValidateNames == {<<"p", "a", "y">>, <<" ">>}
ValidateTypes == {"cash", "loan"}

\* 30 February
BadDate == <<2024, 2, 30, 0>>

ValidateTransactions ==
    {<<>>, <<Transaction(301, CashId, "income", 25, Savings, <<>>, BadDate)>>}

ValidateValuations ==
    {<<>>, <<ValuationRecord(201, CashId, -5, D1, <<>>, "valuation")>>}

ValidateLedgers ==
    {LedgerFile(<<[Account(CashId, name, type, color, 100, "active", <<>>)
                     EXCEPT !.transactions = txns, !.valuations = vals]>>, <<>>) :
        name \in ValidateNames, type \in ValidateTypes, color \in ValidateColors,
        txns \in ValidateTransactions, vals \in ValidateValuations}

InitValidate == \E raw \in ValidateLedgers : LoadedFrom(raw)

NextValidate ==
    \/ \E amount \in {0, 10} :
          /\ nextId <= MaxDraws
          /\ AddTransaction(CashId, "expense", amount, Spending, <<>>, D2)
    \/ CallValidate(CashId)

SpecValidate == InitValidate /\ [][NextValidate]_vars

----------------------------------------------------------------------------
\* The load specification: a ledger file with one investment account, named
\* with the real-estate marker alone, with the marker and more, or without it,
\* that holds two valuations, each saved with a transaction type, with a null
\* one, or by a version that had no such key; the loaded account's trade pairs
\* and return rate are read.

\* The mark of a record saved without the key "transaction_type"
Absent == "absent"

LoadNames == {Marker, RealEstateName, StockName}
LoadTypes == {Absent, None, "buy", "valuation"}

\* The dict of valuation v as a file holds it with the type t, or without the
\* key when t is Absent
SavedValuation(v, t) ==
    IF t = Absent
    THEN [k \in (DOMAIN AsDictValuation(v)) \ {"transaction_type"} |-> AsDictValuation(v)[k]]
    ELSE [AsDictValuation(v) EXCEPT !.transaction_type = t]

LoadLedger(name, t1, t2) ==
    LET account == [Account(InvId, name, "investment", Blue, 0, "active", <<>>)
                       EXCEPT !.purchase_amount = 100]
        first == ValuationRecord(201, InvId, 100, D1, <<>>, "valuation")
        second == ValuationRecord(202, InvId, 130, D2, <<>>, "valuation")
    IN  [accounts |-> <<[AsDictAccount(account) EXCEPT
                            !.valuations = <<SavedValuation(first, t1),
                                             SavedValuation(second, t2)>>]>>,
         salaries |-> <<>>]

InitLoad ==
    \E name \in LoadNames, t1 \in LoadTypes, t2 \in LoadTypes :
        LoadedFrom(LoadLedger(name, t1, t2))

NextLoad ==
    \/ CallGetTradePairs(InvId)
    \/ CallReturnRate(InvId)

SpecLoad == InitLoad /\ [][NextLoad]_vars

----------------------------------------------------------------------------
\* The fresh-store specification: from an empty store, investment accounts are
\* opened, closed, reopened and deleted; valuations with positive, zero and
\* negative amounts are added to them and deleted; transactions are added.

FreshAmounts == {-5, 0, 100}

InitFresh == Loaded(<<>>, <<>>)

NextFresh ==
    \/ /\ nextId <= MaxDraws
       /\ AddAccount(StockName, "investment", Blue, 0, <<>>)
    \/ \E id \in DOMAIN accounts, amount \in FreshAmounts :
          /\ nextId <= MaxIds
          /\ AddValuation(id, amount, D1, <<>>, "valuation")
    \/ \E id \in DOMAIN accounts :
          \E valuation_id \in ValuationIds(accounts[id]) :
             DeleteValuation(id, valuation_id)
    \/ \E id \in DOMAIN accounts :
          /\ nextId <= MaxIds
          /\ AddTransaction(id, "income", 10, Other, <<>>, D1)
    \/ \E id \in DOMAIN accounts : ToggleAccountStatus(id)
    \/ \E id \in DOMAIN accounts : DeleteAccount(id)

SpecFresh == InitFresh /\ [][NextFresh]_vars

----------------------------------------------------------------------------
\* The upsert specification: on the ledger file of the store specification, a
\* caller holds the two account objects it obtained right after loading and an
\* account object it built itself and never added.  It hands them to
\* update_account and deletes accounts, in any order; accounts are opened,
\* closed and reopened and salaries are added meanwhile.  No operation here
\* changes a held object in place, so each is what the caller obtained.

\* The account object get_account(account_id) returned right after loading.
Obtained(account_id) == Deserialize(StoreLedger).accounts[account_id]

\* An account object built by the caller.
Foreign == Account(FundId, <<"f", "u", "n", "d">>, "investment", "#9b59b6", 0, "active", <<>>)

HeldAccounts == {Obtained(InvId), Obtained(CashId), Foreign}

InitUpsert == LoadedFrom(StoreLedger)

NextUpsert ==
    \/ \E account \in HeldAccounts : UpdateAccount(account)
    \/ \E id \in (DOMAIN accounts) \cup {UnknownId} : DeleteAccount(id)
    \/ /\ nextId <= MaxDraws
       /\ AddAccount(StoreName, "consumption", "#e74c3c", 50, <<>>)
    \/ \E id \in 1..MaxDraws : ToggleAccountStatus(id)
    \/ /\ Len(salaries) < MaxSalaries
       /\ AddSalary(3000, <<2024, 2>>, <<"B">>)

SpecUpsert == InitUpsert /\ [][NextUpsert]_vars

----------------------------------------------------------------------------
\* Vocabulary of the trade-pair claims.  The claims speak of the account's stored
\* valuation list vals (insertion order) and of the list of pairs returned; the
\* processing order is stated here without the model's sort: record i is met
\* before record j when its date is smaller, or equal with i stored first.

PairsAsked == call.op = "get_trade_pairs" /\ HasAccount(call.args[1])

AskedVals == accounts[call.args[1]].valuations

MetBefore(vals, i, j) ==
    \/ StrLess(vals[i].evaluation_date, vals[j].evaluation_date)
    \/ vals[i].evaluation_date = vals[j].evaluation_date /\ i < j

OfType(vals, type) == {i \in 1..Len(vals) : vals[i].transaction_type = type}

IsPairOf(pairs, b, c) == \E n \in 1..Len(pairs) : pairs[n] = TradePair(b, c)

IsClosingLeg(pairs, c) == \E n \in 1..Len(pairs) : pairs[n].sell_valuation = c

\* The sells met before record j that closed a pair.
PairedSellsBefore(vals, pairs, j) ==
    {s \in OfType(vals, "sell") : MetBefore(vals, s, j) /\ IsClosingLeg(pairs, vals[s])}

\* The number of buys pending when record j is met.
PendingAt(vals, pairs, j) ==
    Cardinality({b \in OfType(vals, "buy") : MetBefore(vals, b, j)})
        - Cardinality(PairedSellsBefore(vals, pairs, j))

\* The n-th oldest buy of vals, as a set (empty when there are fewer buys).
NthBuy(vals, n) ==
    {b \in OfType(vals, "buy") :
        Cardinality({x \in OfType(vals, "buy") : MetBefore(vals, x, b)}) = n - 1}

\* Buy b is the oldest pending buy when record j is met.
OldestPendingAt(vals, pairs, b, j) ==
    /\ MetBefore(vals, b, j)
    /\ ~\E s \in PairedSellsBefore(vals, pairs, j) : IsPairOf(pairs, vals[b], vals[s])
    /\ \A x \in OfType(vals, "buy") :
          MetBefore(vals, x, b) =>
             \E s \in PairedSellsBefore(vals, pairs, j) : IsPairOf(pairs, vals[x], vals[s])

\* The stored records are exactly three, met in the order i, j, k, of these types.
MetInOrder(vals, ti, tj, tk) ==
    /\ Len(vals) = 3
    /\ \E i, j, k \in 1..3 :
          /\ MetBefore(vals, i, j) /\ MetBefore(vals, j, k)
          /\ vals[i].transaction_type = ti
          /\ vals[j].transaction_type = tj
          /\ vals[k].transaction_type = tk

First(vals) == CHOOSE i \in 1..Len(vals) : \A j \in 1..Len(vals) : j = i \/ MetBefore(vals, i, j)
Last(vals) == CHOOSE i \in 1..Len(vals) : \A j \in 1..Len(vals) : j = i \/ MetBefore(vals, j, i)
Middle(vals) == CHOOSE i \in 1..Len(vals) : i # First(vals) /\ i # Last(vals)

\* C1: get_trade_pairs pairs a sell that finds a pending buy with the OLDEST
\* pending buy, which leaves the queue, and with no other buy: the n-th pair closed
\* by a sell holds the n-th oldest buy; a sell closes at most one pair, and closes
\* one whenever a buy is pending when it is met; at that step the queue loses its
\* head and nothing else.  buy, buy, sell gives the single pair (first buy, sell).
C1_FifoSellPairing ==
    PairsAsked =>
        LET vals == AskedVals
            pairs == call.ret
            IsSellPair(p) == p.sell_valuation.transaction_type = "sell"
            sellPairs == SelectSeq(pairs, IsSellPair)
            sorted == GetValuations(call.args[1])
        IN  /\ \A n \in 1..Len(sellPairs) :
                  \E b \in NthBuy(vals, n) : sellPairs[n].buy_valuation = vals[b]
            /\ \A s \in OfType(vals, "sell") :
                  /\ Cardinality({n \in 1..Len(pairs) : pairs[n].sell_valuation = vals[s]}) <= 1
                  /\ PendingAt(vals, pairs, s) > 0 => IsClosingLeg(pairs, vals[s])
            /\ \A k \in 1..Len(sorted) :
                  LET before == PairsState(sorted, k - 1)
                      after == PairsState(sorted, k)
                  IN  sorted[k].transaction_type = "sell" /\ before.unpaired_buys # <<>> =>
                         /\ after.unpaired_buys = Tail(before.unpaired_buys)
                         /\ after.pairs = Append(before.pairs,
                                TradePair(Head(before.unpaired_buys), sorted[k]))
            /\ MetInOrder(vals, "buy", "buy", "sell") =>
                  pairs = <<TradePair(vals[First(vals)], vals[Last(vals)])>>

\* C1 witness: two buys and a later sell are stored, the younger buy stored first,
\* and the pairs asked for are the single pair (older buy, sell).
C1_Witness ==
    /\ PairsAsked
    /\ MetInOrder(AskedVals, "buy", "buy", "sell")
    /\ First(AskedVals) = 2
    /\ AskedVals[First(AskedVals)].evaluated_amount = 100
    /\ AskedVals[Last(AskedVals)].evaluated_amount = 130
    /\ call.ret = <<TradePair(AskedVals[2], AskedVals[Last(AskedVals)])>>

\* C2: a sell or a valuation met while no buy is pending is in no pair, and no
\* error is raised; when the records hold no buy, the list of pairs is empty.
C2_NoPendingBuyNoPair ==
    PairsAsked =>
        LET vals == AskedVals
            pairs == call.ret
        IN  /\ call.outcome = "ok"
            /\ \A c \in OfType(vals, "sell") \cup OfType(vals, "valuation") :
                  PendingAt(vals, pairs, c) = 0 =>
                     \A n \in 1..Len(pairs) :
                        pairs[n].sell_valuation # vals[c] /\ pairs[n].buy_valuation # vals[c]
            /\ OfType(vals, "buy") = {} => pairs = <<>>

\* C2 witness: a sell and a valuation are met before the only buy, and the pairs
\* asked for are none.
C2_Witness ==
    /\ PairsAsked
    /\ Len(AskedVals) = 3
    /\ AskedVals[Last(AskedVals)].transaction_type = "buy"
    /\ {AskedVals[First(AskedVals)].transaction_type,
        AskedVals[Middle(AskedVals)].transaction_type} = {"sell", "valuation"}
    /\ call.ret = <<>>

\* C3: valuations met while the same buy is the oldest pending buy leave exactly
\* one pair for that buy, closed by the last of them: right after each such
\* valuation the list holds one pair with that buy, (buy, this valuation); in the
\* returned list a buy has at most one pair closed by a valuation, closed by the
\* last valuation met while the buy was the oldest pending one, and it is the
\* buy's only pair when no sell closed the buy.  buy, valuation, valuation gives
\* the single pair (buy, last valuation).
C3_LatestValuationSupersedes ==
    PairsAsked =>
        LET vals == AskedVals
            pairs == call.ret
            sorted == GetValuations(call.args[1])
            Marks(b) == {v \in OfType(vals, "valuation") : OldestPendingAt(vals, pairs, b, v)}
            LastMark(b) == CHOOSE v \in Marks(b) : \A w \in Marks(b) : w = v \/ MetBefore(vals, w, v)
        IN  /\ \A k \in 1..Len(sorted) :
                  LET before == PairsState(sorted, k - 1)
                      after == PairsState(sorted, k)
                      HasHead(p) == p.buy_valuation = Head(before.unpaired_buys)
                  IN  sorted[k].transaction_type = "valuation" /\ before.unpaired_buys # <<>> =>
                         SelectSeq(after.pairs, HasHead)
                            = <<TradePair(Head(before.unpaired_buys), sorted[k])>>
            /\ \A b \in OfType(vals, "buy") :
                  LET IsMarkOf(p) == /\ p.buy_valuation = vals[b]
                                     /\ p.sell_valuation.transaction_type = "valuation"
                      IsOf(p) == p.buy_valuation = vals[b]
                  IN  /\ Marks(b) = {} => SelectSeq(pairs, IsMarkOf) = <<>>
                      /\ Marks(b) # {} =>
                            /\ SelectSeq(pairs, IsMarkOf) = <<TradePair(vals[b], vals[LastMark(b)])>>
                            /\ (~\E s \in OfType(vals, "sell") : IsPairOf(pairs, vals[b], vals[s]))
                                  => SelectSeq(pairs, IsOf) = <<TradePair(vals[b], vals[LastMark(b)])>>
            /\ MetInOrder(vals, "buy", "valuation", "valuation") =>
                  pairs = <<TradePair(vals[First(vals)], vals[Last(vals)])>>

\* C3 witness: buy@100, then two valuations, the later one of amount 130 and
\* stored before the earlier one; the pairs asked for are (buy, later valuation).
C3_Witness ==
    /\ PairsAsked
    /\ MetInOrder(AskedVals, "buy", "valuation", "valuation")
    /\ AskedVals[First(AskedVals)].evaluated_amount = 100
    /\ AskedVals[Middle(AskedVals)].evaluated_amount = 100
    /\ AskedVals[Last(AskedVals)].evaluated_amount = 130
    /\ Last(AskedVals) < Middle(AskedVals)
    /\ call.ret = <<TradePair(AskedVals[First(AskedVals)], AskedVals[Last(AskedVals)])>>

\* C4: for buy, valuation, sell the returned list holds the pair (buy, sell) and
\* does not hold the pair (buy, valuation).
C4_SellReplacesValuationPair ==
    PairsAsked /\ MetInOrder(AskedVals, "buy", "valuation", "sell") =>
        /\ IsPairOf(call.ret, AskedVals[First(AskedVals)], AskedVals[Last(AskedVals)])
        /\ ~IsPairOf(call.ret, AskedVals[First(AskedVals)], AskedVals[Middle(AskedVals)])

----------------------------------------------------------------------------
\* Vocabulary of the return-rate claims

RateAsked == call.op = "return_rate"

AskedAccount == accounts[call.args[1]]

\* The buys no buy is dated before, and the sells no sell is dated after.
EarliestBuys(vals) ==
    {b \in OfType(vals, "buy") :
        \A x \in OfType(vals, "buy") : ~StrLess(vals[x].evaluation_date, vals[b].evaluation_date)}

LatestSells(vals) ==
    {s \in OfType(vals, "sell") :
        \A x \in OfType(vals, "sell") : ~StrLess(vals[s].evaluation_date, vals[x].evaluation_date)}

\* The records no record is dated after.
LatestRecords(vals) ==
    {i \in 1..Len(vals) :
        \A x \in 1..Len(vals) : ~StrLess(vals[i].evaluation_date, vals[x].evaluation_date)}

\* The real-estate condition: the marker in the name, a buy and a sell.
RealEstateCase(account) ==
    /\ Contains(account.name, Marker)
    /\ OfType(account.valuations, "buy") # {}
    /\ OfType(account.valuations, "sell") # {}

Without(s, i) == SubSeq(s, 1, i - 1) \o SubSeq(s, i + 1, Len(s))

\* C5: for an investment account named with the real-estate marker that holds a
\* buy and a sell, return_rate is (S - B) / B * 100 for B the amount of an
\* earliest-dated buy and S the amount of a latest-dated sell, and 0 when B = 0;
\* it is the same for every purchase_amount, and the same without any record
\* that is neither an earliest-dated buy nor a latest-dated sell.
C5_RealEstateReturnRate ==
    RateAsked /\ AskedAccount.type = "investment" /\ RealEstateCase(AskedAccount) =>
        LET account == AskedAccount
            vals == account.valuations
        IN  /\ \E b \in EarliestBuys(vals), s \in LatestSells(vals) :
                  call.ret = IF vals[b].evaluated_amount = 0 THEN ZeroRate
                             ELSE [num |-> (vals[s].evaluated_amount - vals[b].evaluated_amount) * 100,
                                   den |-> vals[b].evaluated_amount]
            /\ \A p \in {0, 7, 1000, 1200} :
                  ReturnRate([account EXCEPT !.purchase_amount = p]) = call.ret
            /\ \A i \in (1..Len(vals)) \ (EarliestBuys(vals) \cup LatestSells(vals)) :
                  ReturnRate([account EXCEPT !.valuations = Without(vals, i)]) = call.ret

\* C5 witness: a real-estate account with a cost basis of 1000 holds buy@1000,
\* sell@1200 and a later buy@1200; its return rate is 20.
C5_Witness ==
    /\ RateAsked
    /\ Contains(AskedAccount.name, Marker)
    /\ AskedAccount.purchase_amount = 1000
    /\ Len(AskedAccount.valuations) = 3
    /\ LET vals == AskedAccount.valuations IN
       /\ vals[1].transaction_type = "buy" /\ vals[1].evaluated_amount = 1000
       /\ vals[1].evaluation_date = D1
       /\ vals[2].transaction_type = "sell" /\ vals[2].evaluated_amount = 1200
       /\ vals[2].evaluation_date = D1
       /\ vals[3].transaction_type = "buy" /\ vals[3].evaluated_amount = 1200
       /\ vals[3].evaluation_date = D2
    /\ call.ret.num = 20 * call.ret.den

\* C6: for an investment account with a valuation for which the real-estate
\* condition does not hold (a real-estate name without a buy or without a sell
\* included), return_rate is (latest valuation - purchase_amount) /
\* purchase_amount * 100 when purchase_amount is not 0, and 0 when it is.
C6_GenericReturnRate ==
    /\ RateAsked /\ AskedAccount.type = "investment"
    /\ AskedAccount.valuations # <<>> /\ ~RealEstateCase(AskedAccount)
    => LET account == AskedAccount
           vals == account.valuations
       IN  IF account.purchase_amount = 0 THEN call.ret = ZeroRate
           ELSE \E i \in LatestRecords(vals) :
                   call.ret = [num |-> (vals[i].evaluated_amount - account.purchase_amount) * 100,
                               den |-> account.purchase_amount]

----------------------------------------------------------------------------
\* Vocabulary of the transaction claims

RECURSIVE SetSum(_, _)
SetSum(S, f) ==
    IF S = {} THEN 0
    ELSE LET x == CHOOSE y \in S : TRUE IN f[x] + SetSum(S \ {x}, f)

\* opening_balance + the income amounts - the expense amounts, summed over the
\* set of the account's transactions
LedgerBalance(account) ==
    LET txns == account.transactions
        amount == [i \in 1..Len(txns) |-> txns[i].amount]
    IN  account.opening_balance
           + SetSum({i \in 1..Len(txns) : txns[i].type = "income"}, amount)
           - SetSum({i \in 1..Len(txns) : txns[i].type = "expense"}, amount)

AddTransactionCalled(c) == c.op = "add_transaction"

\* C7: balance() of every stored account is opening_balance plus its income
\* amounts minus its expense amounts; it is the same for every permutation of the
\* transaction list, and the same whatever purchase_amount, cash_holding,
\* evaluated_amount and the valuation list hold.
C7_BalanceFromTransactions ==
    /\ \A id \in DOMAIN accounts :
          LET account == accounts[id]
              txns == account.transactions
          IN  /\ Balance(account) = LedgerBalance(account)
              /\ \A perm \in Permutations(1..Len(txns)) :
                    Balance([account EXCEPT
                                !.transactions = [i \in 1..Len(txns) |-> txns[perm[i]]]])
                       = Balance(account)
              /\ \A x \in {-3, 0, 7} :
                    Balance([account EXCEPT
                                !.purchase_amount = x, !.cash_holding = x,
                                !.evaluated_amount = x,
                                !.valuations = <<ValuationRecord(0, id, x, D1, <<>>, "buy")>>])
                       = Balance(account)
    /\ call.op = "balance" => call.ret = LedgerBalance(accounts[call.args[1]])

\* C7 witness: an account opened with 100 holds an expense of 10 and then an
\* income of 25, and its balance is read as 115.
C7_Witness ==
    /\ call.op = "balance"
    /\ LET account == accounts[call.args[1]] IN
       /\ account.opening_balance = 100
       /\ Len(account.transactions) = 2
       /\ account.transactions[1].type = "expense" /\ account.transactions[1].amount = 10
       /\ account.transactions[2].type = "income" /\ account.transactions[2].amount = 25
    /\ call.ret = 115

\* C8: add_transaction with a negative amount fails with NegativeAmount, for a
\* stored or unknown account id and a valid or invalid type, and leaves the
\* accounts, their order, the salaries and the persisted snapshot unchanged.
C8_NegativeAmountRefused ==
    [][AddTransactionCalled(call') /\ call'.args[3] < 0 =>
          /\ call'.outcome = "NegativeAmount"
          /\ accounts' = accounts /\ order' = order
          /\ salaries' = salaries /\ persisted' = persisted]_vars

\* C8 witness: a negative amount with an invalid type was refused as
\* NegativeAmount on a stored account that holds a transaction.
C8_Witness ==
    /\ AddTransactionCalled(call)
    /\ call.args[3] < 0 /\ call.args[2] = "transfer"
    /\ call.outcome = "NegativeAmount"
    /\ HasAccount(call.args[1])
    /\ accounts[call.args[1]].transactions # <<>>

\* C9: add_transaction with amount 0 and a valid type on a stored account
\* succeeds and appends the transaction it returns; Transaction.validate fails on
\* that stored transaction; the account's balance is what it was.
C9_ZeroAmountStored ==
    [][/\ AddTransactionCalled(call') /\ call'.args[3] = 0
       /\ call'.args[2] \in {"income", "expense"} /\ call'.args[1] \in DOMAIN accounts
       => /\ call'.outcome = "ok"
          /\ call'.ret.amount = 0
          /\ accounts'[call'.args[1]].transactions
                = Append(accounts[call'.args[1]].transactions, call'.ret)
          /\ TransactionValidate(call'.ret) = "InvalidAmount"
          /\ Balance(accounts'[call'.args[1]]) = Balance(accounts[call'.args[1]])]_vars

\* C9 witness: a stored account holds a transaction of amount 0 just added, on
\* which Transaction.validate fails, next to one of amount 25.
C9_Witness ==
    /\ AddTransactionCalled(call) /\ call.outcome = "ok" /\ HasAccount(call.args[1])
    /\ LET txns == accounts[call.args[1]].transactions IN
       /\ Len(txns) = 2
       /\ txns[1].amount = 25
       /\ txns[2] = call.ret /\ txns[2].amount = 0
       /\ TransactionValidate(txns[2]) # "ok"

\* C10: add_transaction with a valid amount and type and an account id that is
\* not stored raises no error and leaves the accounts (none gains a transaction,
\* none is created), their order, the salaries and the persisted snapshot
\* unchanged.
C10_UnknownAccountNoOp ==
    [][/\ AddTransactionCalled(call') /\ call'.args[3] >= 0
       /\ call'.args[2] \in {"income", "expense"} /\ call'.args[1] \notin DOMAIN accounts
       => /\ call'.outcome = "ok"
          /\ accounts' = accounts /\ order' = order
          /\ salaries' = salaries /\ persisted' = persisted]_vars

\* C10 witness: an income of 25 for an unknown id returned normally while the
\* store holds an account with a transaction; no account holds the returned one.
C10_Witness ==
    /\ AddTransactionCalled(call) /\ call.outcome = "ok"
    /\ call.args[3] = 25 /\ ~HasAccount(call.args[1])
    /\ \E id \in DOMAIN accounts : accounts[id].transactions # <<>>
    /\ \A id \in DOMAIN accounts :
          \A i \in 1..Len(accounts[id].transactions) :
             accounts[id].transactions[i] # call.ret
    /\ persisted = Serialize(accounts, order, salaries)

----------------------------------------------------------------------------
\* Vocabulary of the valuation claims

AddValuationCalled(c) == c.op = "add_valuation"

\* The two legacy mirror fields of an account
Mirror(account) == <<account.evaluated_amount, account.last_valuation_date>>

\* What the mirror fields hold when they mirror record v: its amount and the
\* first 10 characters of its date
MirrorOf(v) == <<v.evaluated_amount, SubSeq(v.evaluation_date, 1, 3)>>

\* C11: add_valuation fails with AccountNotFound on an id that is not stored and
\* with WrongAccountType on a stored account that is not an investment account;
\* the failed call stores no account, leaves every account's valuation list and
\* mirror fields as they were, and persists nothing.
C11_AddValuationRefused ==
    [][/\ AddValuationCalled(call')
       /\ \/ call'.args[1] \notin DOMAIN accounts
          \/ accounts[call'.args[1]].type # "investment"
       => /\ call'.outcome = IF call'.args[1] \notin DOMAIN accounts
                             THEN "AccountNotFound" ELSE "WrongAccountType"
          /\ DOMAIN accounts' = DOMAIN accounts
          /\ \A id \in DOMAIN accounts :
                /\ accounts'[id].valuations = accounts[id].valuations
                /\ Mirror(accounts'[id]) = Mirror(accounts[id])
          /\ persisted' = persisted]_vars

\* C11 witness: a valuation was refused as WrongAccountType on the cash account,
\* which holds no valuation and keeps its mirror fields, while the investment
\* account holds two.
C11_Witness ==
    /\ AddValuationCalled(call) /\ call.outcome = "WrongAccountType"
    /\ call.args[1] = CashId
    /\ accounts[CashId].valuations = <<>>
    /\ Mirror(accounts[CashId]) = <<50, SubSeq(D1, 1, 3)>>
    /\ Len(accounts[InvId].valuations) = 2

\* C12 as stated: add_valuation on an investment account appends exactly the
\* record it returns, built from the arguments, and sets the mirror fields to
\* that record's amount and date[:10]; when a stored valuation is dated later
\* than the added one, the mirror fields differ from the amount and date[:10] of
\* latest_valuation.
C12_MirrorDiffersFromLatest ==
    [][/\ AddValuationCalled(call') /\ call'.args[1] \in DOMAIN accounts
       /\ accounts[call'.args[1]].type = "investment"
       => LET before == accounts[call'.args[1]]
              after == accounts'[call'.args[1]]
              vals == after.valuations
          IN  /\ call'.outcome = "ok"
              /\ vals = Append(before.valuations, call'.ret)
              /\ call'.ret.evaluated_amount = call'.args[2]
              /\ call'.ret.evaluation_date = call'.args[3]
              /\ call'.ret.transaction_type = call'.args[5]
              /\ Mirror(after) = <<call'.args[2], SubSeq(call'.args[3], 1, 3)>>
              /\ (\E i \in 1..Len(before.valuations) :
                     StrLess(call'.args[3], before.valuations[i].evaluation_date))
                 => \A i \in LatestRecords(vals) : Mirror(after) # MirrorOf(vals[i])]_vars

\* C12, amended: add_valuation on an investment account appends exactly the
\* record it returns, built from the arguments, and sets the mirror fields to
\* that record's amount and date[:10]; when a stored valuation is dated later
\* than the added one, the mirrored record is not a latest-dated record, and the
\* mirror fields differ from the amount and date[:10] of every latest-dated
\* record that differs from the added one in amount or in calendar day.
C12_MirrorOfAddedRecord ==
    [][/\ AddValuationCalled(call') /\ call'.args[1] \in DOMAIN accounts
       /\ accounts[call'.args[1]].type = "investment"
       => LET before == accounts[call'.args[1]]
              after == accounts'[call'.args[1]]
              vals == after.valuations
          IN  /\ call'.outcome = "ok"
              /\ vals = Append(before.valuations, call'.ret)
              /\ call'.ret.evaluated_amount = call'.args[2]
              /\ call'.ret.evaluation_date = call'.args[3]
              /\ call'.ret.transaction_type = call'.args[5]
              /\ Mirror(after) = <<call'.args[2], SubSeq(call'.args[3], 1, 3)>>
              /\ (\E i \in 1..Len(before.valuations) :
                     StrLess(call'.args[3], before.valuations[i].evaluation_date))
                 => \A i \in LatestRecords(vals) :
                       /\ vals[i] # call'.ret
                       /\ \/ vals[i].evaluated_amount # call'.args[2]
                          \/ SubSeq(vals[i].evaluation_date, 1, 3) # SubSeq(call'.args[3], 1, 3)
                          => Mirror(after) # MirrorOf(vals[i])]_vars

\* C12 witness: a valuation of 100 dated D1 was just added after one of 130
\* dated D2; the mirror fields are those of the added record and differ from
\* those of the latest-dated one.
C12_Witness ==
    /\ AddValuationCalled(call) /\ call.outcome = "ok" /\ call.args[1] = InvId
    /\ LET account == accounts[InvId]
           vals == account.valuations
       IN  /\ Len(vals) = 2
           /\ vals[2] = call.ret
           /\ vals[1].evaluation_date = D2 /\ vals[1].evaluated_amount = 130
           /\ vals[2].evaluation_date = D1 /\ vals[2].evaluated_amount = 100
           /\ Mirror(account) = <<100, SubSeq(D1, 1, 3)>>
           /\ LatestRecords(vals) = {1}

\* C13: delete_valuation on a stored account removes the records with the given
\* id and keeps the others in their order; afterwards the mirror fields are the
\* amount and date[:10] of a remaining record no remaining record is dated
\* after, or 0 and "" when none remains.  On an id that is not stored it fails
\* with AccountNotFound and changes nothing.
C13_DeleteValuationMirrorsLatest ==
    [][call'.op = "delete_valuation" =>
          IF call'.args[1] \notin DOMAIN accounts
          THEN /\ call'.outcome = "AccountNotFound"
               /\ accounts' = accounts /\ order' = order
               /\ salaries' = salaries /\ persisted' = persisted
          ELSE LET before == accounts[call'.args[1]]
                   after == accounts'[call'.args[1]]
                   vals == after.valuations
                   IsOther(v) == v.id # call'.args[2]
               IN  /\ call'.outcome = "ok"
                   /\ vals = SelectSeq(before.valuations, IsOther)
                   /\ IF vals = <<>> THEN Mirror(after) = <<0, <<>>>>
                      ELSE \E i \in LatestRecords(vals) : Mirror(after) = MirrorOf(vals[i])]_vars

\* C13 witness: the record with the deleted id is gone and two remain, the one
\* stored first dated D2 at noon with amount 130, the one stored last dated D1
\* with amount 100; the mirror fields are 130 and the day of D2.
C13_Witness ==
    /\ call.op = "delete_valuation" /\ call.outcome = "ok" /\ call.args[1] = InvId
    /\ LET account == accounts[InvId]
           vals == account.valuations
       IN  /\ Len(vals) = 2
           /\ \A i \in 1..2 : vals[i].id # call.args[2]
           /\ call.args[2] < nextId
           /\ vals[1].evaluation_date = D2Noon /\ vals[1].evaluated_amount = 130
           /\ vals[2].evaluation_date = D1 /\ vals[2].evaluated_amount = 100
           /\ Mirror(account) = <<130, SubSeq(D2, 1, 3)>>

----------------------------------------------------------------------------
\* Vocabulary of the assets claim

\* The ids total_assets counts
Counted(accs) == {id \in DOMAIN accs : accs[id].type # "consumption"}

\* What an account may contribute: for an investment account the amount of a
\* latest-dated valuation, or evaluated_amount when it has no valuation, plus
\* cash_holding; for any other account its balance.
Worths(account) ==
    IF account.type = "investment"
    THEN IF account.valuations = <<>>
         THEN {account.evaluated_amount + account.cash_holding}
         ELSE {account.valuations[i].evaluated_amount + account.cash_holding :
                  i \in LatestRecords(account.valuations)}
    ELSE {LedgerBalance(account)}

\* The sums of one contribution of each account of ids
RECURSIVE SumsOfWorths(_, _)
SumsOfWorths(accs, ids) ==
    IF ids = {} THEN {0}
    ELSE LET id == CHOOSE x \in ids : TRUE IN
         {w + rest : w \in Worths(accs[id]), rest \in SumsOfWorths(accs, ids \ {id})}

\* total is the sum of one contribution of each counted account.
IsSumOfWorths(accs, total) == total \in SumsOfWorths(accs, Counted(accs))

\* Every account that the step adds, removes or changes is a consumption
\* account, before the step and after it.
OnlyConsumptionChanged ==
    /\ accounts' # accounts
    /\ \A id \in (DOMAIN accounts) \cup (DOMAIN accounts') :
          \/ id \in DOMAIN accounts /\ id \in DOMAIN accounts'
             /\ accounts'[id] = accounts[id]
          \/ /\ id \in DOMAIN accounts => accounts[id].type = "consumption"
             /\ id \in DOMAIN accounts' => accounts'[id].type = "consumption"

\* C14: before and after every step, total_assets() is the sum over the accounts
\* whose type is not consumption of the asset value of an investment account
\* and of the balance of any other, and the total a call returned is that sum;
\* a step that adds, changes or deletes nothing but consumption accounts and
\* their transactions leaves total_assets() as it was.
C14_TotalAssets ==
    [][/\ IsSumOfWorths(accounts, TotalAssets(accounts, order))
       /\ IsSumOfWorths(accounts', TotalAssets(accounts', order'))
       /\ call'.op = "total_assets" => IsSumOfWorths(accounts', call'.ret)
       /\ OnlyConsumptionChanged =>
             TotalAssets(accounts', order') = TotalAssets(accounts, order)]_vars

\* C14 witness: the total read is 1135: 700 of the valuation just added to the
\* first investment account and its cash holding of 10, 300 of the second one's
\* latest-dated valuation (stored before one of 700 with an earlier date), and
\* 125 of the cash account; the two consumption accounts, with balances of -40
\* and 50, count for nothing.
C14_Witness ==
    /\ call.op = "total_assets" /\ call.ret = 1135
    /\ HasAccount(InvId) /\ HasAccount(CashId) /\ HasAccount(ConsId) /\ HasAccount(FundId)
    /\ Len(accounts[InvId].valuations) = 1
    /\ accounts[InvId].valuations[1].evaluated_amount = 700
    /\ accounts[FundId].valuations[1].evaluation_date = D2
    /\ accounts[FundId].valuations[1].evaluated_amount = 300
    /\ accounts[FundId].valuations[2].evaluated_amount = 700
    /\ Balance(accounts[CashId]) = 125
    /\ Balance(accounts[ConsId]) = -40
    /\ \E id \in DOMAIN accounts :
          id # ConsId /\ accounts[id].type = "consumption" /\ Balance(accounts[id]) = 50

----------------------------------------------------------------------------
\* Vocabulary of the breakdown claim

BreakdownAsked == call.op = "monthly_income_breakdown"

\* The transactions that contribute for `year` (all years when year is << >>),
\* as pairs <<account id, index>>: those of cash accounts whose date starts
\* with the year.
Contributing(year) ==
    {p \in UNION {{<<id, i>> : i \in 1..Len(accounts[id].transactions)} : id \in DOMAIN accounts} :
        /\ accounts[p[1]].type = "cash"
        /\ year # <<>> => accounts[p[1]].transactions[p[2]].date[1] = year[1]}

TxnAt(p) == accounts[p[1]].transactions[p[2]]

\* The sum of the amounts of the contributing transactions of the month with
\* this type and this category
BucketSum(year, month, type, category) ==
    LET hits == {p \in Contributing(year) :
                    /\ SubSeq(TxnAt(p).date, 1, 2) = month
                    /\ TxnAt(p).type = type /\ TxnAt(p).category = category}
    IN  SetSum(hits, [p \in hits |-> TxnAt(p).amount])

\* The transaction falls in one of the three buckets.
InBucket(t) ==
    \/ t.type = "income" /\ t.category \in {Savings, Interest}
    \/ t.type = "expense" /\ t.category = Spending

\* C15: the items of monthly_income_breakdown(year) hold, per month, in savings
\* the sum of the income of category savings, in interest the sum of the income
\* of category interest and in expense the sum of the expenses of category
\* spending, over the transactions of cash accounts whose date starts with the
\* year and falls in the month, and nothing else; every such transaction that
\* falls in a bucket has its month among the keys; the keys are distinct and
\* in ascending order.
C15_MonthlyIncomeBreakdown ==
    BreakdownAsked =>
        LET year == call.args[1]
            items == call.ret
        IN  /\ \A n \in 1..Len(items) :
                  /\ items[n].savings = BucketSum(year, items[n].month, "income", Savings)
                  /\ items[n].interest = BucketSum(year, items[n].month, "income", Interest)
                  /\ items[n].expense = BucketSum(year, items[n].month, "expense", Spending)
            /\ \A p \in Contributing(year) :
                  InBucket(TxnAt(p)) =>
                     \E n \in 1..Len(items) : items[n].month = SubSeq(TxnAt(p).date, 1, 2)
            /\ \A n, m \in 1..Len(items) :
                  n < m => StrLess(items[n].month, items[m].month)

\* C15 witness: the breakdown of 2024 is January with an expense of 10 and
\* February with savings of 25, in that order, from a cash account that holds
\* the February income first, then a savings income of December 2023 and the
\* January expense, beside a consumption account with a spending expense of
\* January.
C15_Witness ==
    /\ BreakdownAsked /\ call.args[1] = <<2024>>
    /\ call.ret = <<[month |-> <<2024, 1>>, savings |-> 0, interest |-> 0, expense |-> 10],
                    [month |-> <<2024, 2>>, savings |-> 25, interest |-> 0, expense |-> 0]>>
    /\ LET txns == accounts[CashId].transactions IN
       /\ Len(txns) = 3
       /\ txns[1].date = D2
       /\ txns[2].date = D0 /\ txns[2].type = "income" /\ txns[2].category = Savings
       /\ txns[3].date = D1 /\ txns[3].type = "expense" /\ txns[3].category = Spending
    /\ Len(accounts[ConsId].transactions) = 1
    /\ accounts[ConsId].transactions[1].category = Spending

----------------------------------------------------------------------------
\* Vocabulary of the account claims

\* The other accounts are stored as they were.
OthersUnchanged(id) ==
    \A other \in (DOMAIN accounts) \ {id} :
        other \in DOMAIN accounts' /\ accounts'[other] = accounts[other]

\* The order of the stored ids other than id is what it was.
OrderOfOthersUnchanged(id) ==
    LET IsOther(k) == k # id IN SelectSeq(order', IsOther) = SelectSeq(order, IsOther)

StoreUnchanged ==
    /\ accounts' = accounts /\ order' = order
    /\ salaries' = salaries /\ persisted' = persisted

Opposite(status) == IF status = "active" THEN "dead" ELSE "active"

\* C16: toggle_account_status on a stored account makes an active account dead
\* and a dead account active, whatever its balance, changes no other field of
\* it, no other account and not the set of stored ids; as every status is one of
\* the two, the status after a toggle that follows a toggle of the same id is the
\* status before the first; on an id that is not stored it returns normally and
\* changes nothing.
C16_ToggleFlipsStatus ==
    [][call'.op = "toggle_account_status" =>
          LET id == call'.args[1] IN
          /\ call'.outcome = "ok"
          /\ IF id \in DOMAIN accounts
             THEN /\ accounts[id].status \in {"active", "dead"}
                  /\ accounts[id].status = "active" => accounts'[id].status = "dead"
                  /\ accounts[id].status = "dead" => accounts'[id].status = "active"
                  /\ [accounts'[id] EXCEPT !.status = accounts[id].status] = accounts[id]
                  /\ DOMAIN accounts' = DOMAIN accounts
                  /\ OthersUnchanged(id)
                  /\ order' = order /\ salaries' = salaries
                  /\ call.op = "toggle_account_status" /\ call.args[1] = id
                        => accounts'[id].status = Opposite(accounts[id].status)
             ELSE StoreUnchanged]_vars

\* C16 witness: the cash account, whose balance is 125, was closed and reopened:
\* the last call toggled it, and it is stored exactly as the ledger file held it.
C16_Witness ==
    /\ call.op = "toggle_account_status" /\ call.args[1] = CashId
    /\ HasAccount(CashId)
    /\ accounts[CashId].status = "active"
    /\ Balance(accounts[CashId]) = 125
    /\ AsDictAccount(accounts[CashId]) = StoreLedger.accounts[2]

\* C17: delete_account raises no error; on a stored id, the id is stored no more,
\* every other account is stored as it was and in the order it was, and the
\* salaries are what they were; on an id that is not stored, the accounts, their
\* order, the salaries and the persisted snapshot are unchanged.
C17_DeleteAccountFrame ==
    [][call'.op = "delete_account" =>
          LET id == call'.args[1] IN
          /\ call'.outcome = "ok"
          /\ IF id \in DOMAIN accounts
             THEN /\ DOMAIN accounts' = (DOMAIN accounts) \ {id}
                  /\ OthersUnchanged(id)
                  /\ OrderOfOthersUnchanged(id)
                  /\ salaries' = salaries
             ELSE StoreUnchanged]_vars

\* C17 witness: the investment account was deleted; the cash account with its
\* income and an account opened later are stored, with the file's salary entry.
C17_Witness ==
    /\ call.op = "delete_account" /\ call.args[1] = InvId /\ call.outcome = "ok"
    /\ ~HasAccount(InvId)
    /\ HasAccount(CashId) /\ Len(accounts[CashId].transactions) = 1
    /\ Cardinality(DOMAIN accounts) = 2
    /\ Len(order) = 2 /\ order[1] = CashId
    /\ salaries = LedgerSalaries

\* The name holds nothing but white space.
IsBlank(name) == \A i \in 1..Len(name) : name[i] \in {" ", "\t", "\n", "\r", "\f"}

\* C18: add_account with a name of nothing but white space fails with EmptyName
\* and leaves the accounts, their order, the salaries and the persisted snapshot
\* unchanged; with any other name it returns an account whose id was not stored
\* before, the stored ids are the former ones and that one, the account stored
\* under it is the returned one, active, with no transaction and no valuation
\* and a balance of opening_balance, and every account stored before is stored
\* as it was.
C18_AddAccount ==
    [][call'.op = "add_account" =>
          IF IsBlank(call'.args[1])
          THEN call'.outcome = "EmptyName" /\ StoreUnchanged
          ELSE LET new == call'.ret IN
               /\ call'.outcome = "ok"
               /\ new.id \notin DOMAIN accounts
               /\ DOMAIN accounts' = (DOMAIN accounts) \cup {new.id}
               /\ Len(order') = Len(order) + 1
               /\ accounts'[new.id] = new
               /\ new.name = call'.args[1]
               /\ new.status = "active"
               /\ new.transactions = <<>> /\ new.valuations = <<>>
               /\ LedgerBalance(new) = call'.args[4]
               /\ Balance(accounts'[new.id]) = call'.args[4]
               /\ OthersUnchanged(new.id)]_vars

\* C18 witness: a second account was just opened with 100 beside one that holds
\* two transactions; it is active and empty, and its balance is 100.
C18_Witness ==
    /\ call.op = "add_account" /\ call.outcome = "ok"
    /\ Cardinality(DOMAIN accounts) = 2
    /\ HasAccount(call.ret.id)
    /\ accounts[call.ret.id].status = "active"
    /\ accounts[call.ret.id].transactions = <<>>
    /\ Balance(accounts[call.ret.id]) = 100
    /\ \E id \in DOMAIN accounts : Len(accounts[id].transactions) = 2

----------------------------------------------------------------------------
\* Vocabulary of the persistence claims

\* The store _deserialize builds from what _serialize makes of the current store
Reloaded == Deserialize(Serialize(accounts, order, salaries))

MutatingOps ==
    {"add_account", "update_account", "delete_account", "toggle_account_status",
     "add_transaction", "add_salary", "add_valuation", "delete_valuation"}

\* C19: in every reachable state, the store deserialized from the serialization
\* of the store holds the same account ids and, for each, an account with equal
\* fields, the same transactions in the same order and the same valuations in
\* the same order, transaction_type included; and it holds the same salary list.
C19_RoundTrip ==
    /\ DOMAIN Reloaded.accounts = DOMAIN accounts
    /\ \A id \in DOMAIN accounts :
          LET a == accounts[id]
              b == Reloaded.accounts[id]
          IN  /\ b = a
              /\ Len(b.transactions) = Len(a.transactions)
              /\ \A i \in 1..Len(a.transactions) : b.transactions[i] = a.transactions[i]
              /\ Len(b.valuations) = Len(a.valuations)
              /\ \A i \in 1..Len(a.valuations) :
                    /\ b.valuations[i] = a.valuations[i]
                    /\ b.valuations[i].transaction_type = a.valuations[i].transaction_type
    /\ Reloaded.salaries = salaries

\* C19 witness: the store holds a dead account, an account with a loaded and an
\* added transaction, an account with the valuation loaded without a type and a
\* sell added to it, and two salary entries; reloading its serialization gives
\* the same accounts and salaries.
C19_Witness ==
    /\ HasAccount(InvId) /\ HasAccount(CashId)
    /\ accounts[InvId].status = "dead"
    /\ Len(accounts[CashId].transactions) = 2
    /\ Len(accounts[InvId].valuations) = 2
    /\ accounts[InvId].valuations[1].transaction_type = "valuation"
    /\ accounts[InvId].valuations[2].transaction_type = "sell"
    /\ Len(salaries) = 2
    /\ Reloaded.accounts = accounts /\ Reloaded.salaries = salaries

\* C20: after every step of one of the eight mutating operations that changes
\* the accounts, their order or the salaries, the snapshot last handed to the
\* data source is the serialization of all the accounts and all the salaries of
\* the store as it is after the step.
C20_WholeStatePersisted ==
    [][/\ call'.op \in MutatingOps
       /\ accounts' # accounts \/ order' # order \/ salaries' # salaries
       => /\ persisted' = Serialize(accounts', order', salaries')
          /\ Len(persisted'.accounts) = Cardinality(DOMAIN accounts')
          /\ \A id \in DOMAIN accounts' :
                \E i \in 1..Len(persisted'.accounts) :
                   persisted'.accounts[i] = AsDictAccount(accounts'[id])
          /\ persisted'.salaries = salaries']_vars

\* C20 witness: the cash account was just closed in a store of three accounts
\* and two salary entries; the snapshot handed to the data source holds the
\* three accounts as they are, the closed one included, and both entries, and
\* it is not the file the store was loaded from.
C20_Witness ==
    /\ call.op = "toggle_account_status" /\ call.args[1] = CashId
    /\ Cardinality(DOMAIN accounts) = 3 /\ HasAccount(CashId) /\ HasAccount(InvId)
    /\ accounts[CashId].status = "dead"
    /\ Len(salaries) = 2
    /\ Len(persisted.accounts) = 3
    /\ \E i \in 1..3 : persisted.accounts[i] = AsDictAccount(accounts[CashId])
    /\ \E i \in 1..3 : persisted.accounts[i] = AsDictAccount(accounts[InvId])
    /\ persisted.salaries = salaries
    /\ persisted # StoreLedger

----------------------------------------------------------------------------
\* Further claims on the trade pairs

\* Every record met after record i and before record j is a valuation.
OnlyValuationsBetween(vals, i, j) ==
    \A x \in 1..Len(vals) :
        MetBefore(vals, i, x) /\ MetBefore(vals, x, j) => vals[x].transaction_type = "valuation"

\* C22: a valuation leaves the queue of pending buys as it was; so a buy met
\* while no buy is pending, followed by valuations only and then by a sell, is
\* paired with that sell; a valuation met after the sell that closed a buy is in
\* no pair with that buy, and a valuation met while no buy is pending is in no
\* pair at all.
C22_ValuationKeepsBuyPending ==
    PairsAsked =>
        LET vals == AskedVals
            pairs == call.ret
            sorted == GetValuations(call.args[1])
        IN  /\ \A k \in 1..Len(sorted) :
                  sorted[k].transaction_type = "valuation" =>
                     PairsState(sorted, k).unpaired_buys
                        = PairsState(sorted, k - 1).unpaired_buys
            /\ \A b \in OfType(vals, "buy"), s \in OfType(vals, "sell") :
                  /\ MetBefore(vals, b, s) /\ PendingAt(vals, pairs, b) = 0
                  /\ OnlyValuationsBetween(vals, b, s)
                  => IsPairOf(pairs, vals[b], vals[s])
            /\ \A b \in OfType(vals, "buy"), s \in OfType(vals, "sell"),
                  v \in OfType(vals, "valuation") :
                  IsPairOf(pairs, vals[b], vals[s]) /\ MetBefore(vals, s, v)
                     => ~IsPairOf(pairs, vals[b], vals[v])
            /\ \A v \in OfType(vals, "valuation") :
                  PendingAt(vals, pairs, v) = 0 => ~IsClosingLeg(pairs, vals[v])

\* C22 witness: buy, sell, then a valuation of 130, stored before the sell: the
\* pairs asked for are the single pair (buy, sell).
C22_Witness ==
    /\ PairsAsked
    /\ MetInOrder(AskedVals, "buy", "sell", "valuation")
    /\ AskedVals[Last(AskedVals)].evaluated_amount = 130
    /\ Last(AskedVals) < Middle(AskedVals)
    /\ call.ret = <<TradePair(AskedVals[First(AskedVals)], AskedVals[Middle(AskedVals)])>>

\* The pairs of `pairs` whose buy leg is b and whose closing leg has this type.
PairsOfBuy(pairs, b, type) ==
    {n \in 1..Len(pairs) :
        pairs[n].buy_valuation = b /\ pairs[n].sell_valuation.transaction_type = type}

\* C27: in the list get_trade_pairs returns for records of distinct ids, both
\* legs of every pair are stored records, the buy leg has type buy and the
\* closing leg has type sell or valuation; a buy is the buy leg of at most one
\* pair closed by a sell and of at most one pair closed by a valuation; a sell
\* or a valuation is the closing leg of at most one pair.
C27_PairsWellFormed ==
    PairsAsked =>
        LET vals == AskedVals
            pairs == call.ret
        IN  /\ \A n \in 1..Len(pairs) :
                  /\ \E b \in OfType(vals, "buy") : pairs[n].buy_valuation = vals[b]
                  /\ \E c \in OfType(vals, "sell") \cup OfType(vals, "valuation") :
                        pairs[n].sell_valuation = vals[c]
            /\ \A b \in OfType(vals, "buy") :
                  /\ Cardinality(PairsOfBuy(pairs, vals[b], "sell")) <= 1
                  /\ Cardinality(PairsOfBuy(pairs, vals[b], "valuation")) <= 1
            /\ \A c \in 1..Len(vals) :
                  Cardinality({n \in 1..Len(pairs) : pairs[n].sell_valuation = vals[c]}) <= 1

\* C27 witness: the pairs asked for are two pairs of one buy, the first closed
\* by a valuation and the second by a sell.
C27_Witness ==
    /\ PairsAsked
    /\ Len(call.ret) = 2
    /\ call.ret[1].buy_valuation = call.ret[2].buy_valuation
    /\ call.ret[1].sell_valuation.transaction_type = "valuation"
    /\ call.ret[2].sell_valuation.transaction_type = "sell"

\* The loop of get_trade_pairs is about to supersede a pair: record k of the
\* sorted list is a valuation, a buy is pending and the oldest pending buy is
\* already the buy leg of a pair.
Supersedes(sorted, k) ==
    LET st == PairsState(sorted, k - 1) IN
    /\ sorted[k].transaction_type = "valuation"
    /\ st.unpaired_buys # <<>>
    /\ \E n \in 1..Len(st.pairs) :
          st.pairs[n].buy_valuation.id = Head(st.unpaired_buys).id

----------------------------------------------------------------------------
\* The latest valuation

\* The record of vals that latest_valuation is to be: none (<< >>) for an empty
\* list, else the record no record is dated after and no record stored before
\* it matches in date.
FirstOfLatest(vals) ==
    IF vals = <<>> THEN <<>>
    ELSE vals[CHOOSE i \in 1..Len(vals) :
                 \A j \in 1..Len(vals) :
                    /\ ~StrLess(vals[i].evaluation_date, vals[j].evaluation_date)
                    /\ j < i => vals[j].evaluation_date # vals[i].evaluation_date]

\* C23: in every reachable state, latest_valuation of every stored account is
\* none when the account has no valuation, and otherwise the first in stored
\* order of the records no record is dated after; right after delete_valuation
\* on a stored account that keeps a valuation, the mirror fields are the amount
\* and date[:10] of that record of the remaining list.
C23_LatestValuationFirstOfTies ==
    /\ \A id \in DOMAIN accounts :
          /\ LatestValuation(accounts[id]) = FirstOfLatest(accounts[id].valuations)
          /\ accounts[id].valuations = <<>> <=> LatestValuation(accounts[id]) = <<>>
    /\ call.op = "delete_valuation" /\ call.outcome = "ok"
       => LET after == accounts[call.args[1]] IN
          after.valuations # <<>> =>
             Mirror(after) = MirrorOf(FirstOfLatest(after.valuations))

\* C23 witness: a valuation was deleted and two remain, both dated D2, of 100
\* and then 130; latest_valuation is the first, and the mirror fields are 100
\* and the day of D2.
C23_Witness ==
    /\ call.op = "delete_valuation" /\ call.outcome = "ok" /\ call.args[1] = InvId
    /\ LET account == accounts[InvId]
           vals == account.valuations
       IN  /\ Len(vals) = 2
           /\ vals[1].evaluation_date = D2 /\ vals[1].evaluated_amount = 100
           /\ vals[2].evaluation_date = D2 /\ vals[2].evaluated_amount = 130
           /\ \A i \in 1..2 : vals[i].id # call.args[2]
           /\ call.args[2] < nextId
           /\ LatestValuation(account) = vals[1]
           /\ Mirror(account) = <<100, SubSeq(D2, 1, 3)>>
    /\ accounts[CashId].valuations = <<>>
    /\ LatestValuation(accounts[CashId]) = <<>>

----------------------------------------------------------------------------
\* Validation

IsHexDigit(c) ==
    c \in {"0", "1", "2", "3", "4", "5", "6", "7", "8", "9",
           "a", "b", "c", "d", "e", "f", "A", "B", "C", "D", "E", "F"}

\* "#" followed by exactly six hexadecimal digits
IsHexColor(color) ==
    /\ Len(color) = 7
    /\ color[1] = "#"
    /\ \A i \in 2..7 : IsHexDigit(color[i])

\* The transactions, and the valuations, on which validate() fails
FailingTransactions(account) ==
    {i \in 1..Len(account.transactions) : TransactionValidate(account.transactions[i]) # "ok"}

FailingValuations(account) ==
    {i \in 1..Len(account.valuations) : ValuationValidate(account.valuations[i]) # "ok"}

Least(S) == CHOOSE i \in S : \A j \in S : i <= j

\* C24: Account.validate() fails with EmptyName on a blank name; else with
\* InvalidType on a type that is none of the three; else with InvalidColor on
\* every colour that is not "#" followed by exactly six hexadecimal digits; else
\* with the failure of the first transaction that fails; else with the failure
\* of the first valuation that fails; and it succeeds otherwise.
C24_ValidateColorAndOrder ==
    call.op = "validate" =>
        LET account == accounts[call.args[1]] IN
        call.outcome =
            IF IsBlank(account.name) THEN "EmptyName"
            ELSE IF account.type \notin {"cash", "investment", "consumption"}
            THEN "InvalidType"
            ELSE IF ~IsHexColor(account.color) THEN "InvalidColor"
            ELSE IF FailingTransactions(account) # {}
            THEN TransactionValidate(account.transactions[Least(FailingTransactions(account))])
            ELSE IF FailingValuations(account) # {}
            THEN ValuationValidate(account.valuations[Least(FailingValuations(account))])
            ELSE "ok"

----------------------------------------------------------------------------
\* Loading

\* The record is saved without the key "transaction_type".
Untyped(v) == "transaction_type" \notin DOMAIN v

\* C25: of every account of the ledger file (the file is what the store was
\* loaded from as long as nothing is saved), every valuation saved without the
\* key "transaction_type" is loaded, in an account named with the real-estate
\* marker, as a buy when it is the first such record of the account and as a
\* sell when it is a later one, and in any other account as a valuation; an
\* account named with the marker whose two records are both saved without the
\* key is loaded with the types buy, sell.
C25_LoadInfersType ==
    \A n \in 1..Len(disk.accounts) :
        LET acc_dict == disk.accounts[n]
            saved == acc_dict.valuations
            loaded == accounts[acc_dict.id].valuations
        IN  /\ Len(loaded) = Len(saved)
            /\ \A k \in 1..Len(saved) :
                  Untyped(saved[k]) =>
                     loaded[k].transaction_type =
                        IF acc_dict.name = Marker
                        THEN IF \A j \in 1..(k - 1) : ~Untyped(saved[j])
                             THEN "buy" ELSE "sell"
                        ELSE "valuation"
            /\ acc_dict.name = Marker /\ Len(saved) = 2
               /\ Untyped(saved[1]) /\ Untyped(saved[2])
               => /\ loaded[1].transaction_type = "buy"
                  /\ loaded[2].transaction_type = "sell"

----------------------------------------------------------------------------
\* update_account on an account that is not stored

\* C29: update_account raises no error and stores the account it is given under
\* its id, whether or not that id was stored: every other account is stored as
\* it was, an id that was stored keeps its place and one that was not comes
\* last, and the snapshot handed to the data source is the serialization of the
\* store with that account in it.  So after delete_account(id), update_account
\* of the account object obtained before makes that account, with its
\* transactions and valuations, stored and persisted again.
C29_UpdateAccountUpserts ==
    [][call'.op = "update_account" =>
          LET account == call'.args[1]
              id == account.id
          IN  /\ call'.outcome = "ok"
              /\ DOMAIN accounts' = (DOMAIN accounts) \cup {id}
              /\ accounts'[id] = account
              /\ OthersUnchanged(id)
              /\ order' = IF id \in DOMAIN accounts THEN order ELSE Append(order, id)
              /\ salaries' = salaries
              /\ persisted' = Serialize(accounts', order', salaries')
              /\ \E i \in 1..Len(persisted'.accounts) :
                    /\ order'[i] = id
                    /\ persisted'.accounts[i] = AsDictAccount(account)
              /\ call.op = "delete_account" /\ call.args[1] = id
                    => /\ id \notin DOMAIN accounts
                       /\ accounts'[id].transactions = account.transactions
                       /\ accounts'[id].valuations = account.valuations]_vars

\* C29 witness: both loaded accounts were deleted and handed to update_account
\* again after the caller's own account: the three are stored in the order of
\* these calls, the cash account with its income and the investment account
\* with its valuation, and the snapshot holds them so.
C29_Witness ==
    /\ call.op = "update_account" /\ call.outcome = "ok"
    /\ call.args[1] = Obtained(InvId)
    /\ order = <<FundId, CashId, InvId>>
    /\ Len(accounts[CashId].transactions) = 1
    /\ Len(accounts[InvId].valuations) = 1
    /\ persisted.accounts
          = <<AsDictAccount(Foreign), AsDictAccount(Obtained(CashId)),
              AsDictAccount(Obtained(InvId))>>

----------------------------------------------------------------------------
\* delete_valuation with an id no record has

\* The step is a delete_valuation on a stored account none of whose records
\* has the id given.
DeletesUnmatched ==
    /\ call'.op = "delete_valuation"
    /\ call'.args[1] \in DOMAIN accounts
    /\ \A i \in 1..Len(accounts[call'.args[1]].valuations) :
          accounts[call'.args[1]].valuations[i].id # call'.args[2]

\* C30: delete_valuation on a stored account of any type, with an id none of
\* its records has, raises no error and keeps the valuation list as it was, but
\* writes the mirror fields: the amount and date[:10] of the latest-dated
\* record (the first stored among equals), or 0 and the empty string when the
\* account has no valuation.  Nothing else of the account changes, no other
\* account changes, and the store is handed to the data source.
C30_UnmatchedDeleteRewritesMirror ==
    [][DeletesUnmatched =>
          LET id == call'.args[1]
              before == accounts[id]
              after == accounts'[id]
          IN  /\ call'.outcome = "ok"
              /\ after.valuations = before.valuations
              /\ Mirror(after) = IF before.valuations = <<>> THEN <<0, <<>>>>
                                 ELSE MirrorOf(FirstOfLatest(before.valuations))
              /\ after = [before EXCEPT
                             !.evaluated_amount = after.evaluated_amount,
                             !.last_valuation_date = after.last_valuation_date]
              /\ OthersUnchanged(id)
              /\ DOMAIN accounts' = DOMAIN accounts /\ order' = order
              /\ persisted' = Serialize(accounts', order', salaries')
              /\ \E i \in 1..Len(order') :
                    order'[i] = id /\ persisted'.accounts[i] = AsDictAccount(after)]_vars

\* C30 witness: the investment account got a valuation of 130 dated D2 and then
\* one of 100 dated D1, which left the mirror at 100 and the day of D1; no record
\* was ever deleted, and delete_valuation was just called with an id never
\* drawn: both records are stored and the mirror is 130 and the day of D2.  The
\* cash account, which never had a valuation, has had its mirror set to 0 and
\* the empty string, and the snapshot holds both accounts so.
C30_Witness ==
    /\ call.op = "delete_valuation" /\ call.outcome = "ok" /\ call.args[1] = InvId
    /\ nextId = 3 /\ call.args[2] >= nextId
    /\ LET vals == accounts[InvId].valuations IN
          /\ Len(vals) = 2
          /\ vals[1].evaluation_date = D2 /\ vals[1].evaluated_amount = 130
          /\ vals[2].evaluation_date = D1 /\ vals[2].evaluated_amount = 100
    /\ Mirror(accounts[InvId]) = <<130, SubSeq(D2, 1, 3)>>
    /\ accounts[CashId].type = "cash"
    /\ Mirror(accounts[CashId]) = <<0, <<>>>>
    /\ persisted.accounts[1].evaluated_amount = 130
    /\ persisted.accounts[2].evaluated_amount = 0
    /\ ValLedger.accounts[2].evaluated_amount = 50

----------------------------------------------------------------------------
\* The valuation invariant

\* C26: in every state reached from the empty store by add_account,
\* add_valuation, delete_valuation, add_transaction, toggle_account_status and
\* delete_account, every valuation stored in any account has an
\* evaluated_amount of 0 or more.
C26_ValuationsNonNegative ==
    \A id \in DOMAIN accounts :
        \A i \in 1..Len(accounts[id].valuations) :
            accounts[id].valuations[i].evaluated_amount >= 0

----------------------------------------------------------------------------
\* Vocabulary of the save-failure claim

\* The file holds the serialization of the store as it is.
InSync == disk = Serialize(accounts, order, salaries)

InSyncAfter == disk' = Serialize(accounts', order', salaries')

MemoryChanged == accounts' # accounts \/ order' # order \/ salaries' # salaries

\* The call c, made on the accounts accs, got as far as the repository's save().
SaveReached(c, accs) ==
    /\ c.outcome = "ok"
    /\ \/ c.op \in {"add_account", "update_account", "add_salary", "add_valuation",
                     "delete_valuation"}
       \/ /\ c.op \in {"delete_account", "toggle_account_status", "add_transaction"}
          /\ c.args[1] \in DOMAIN accs

\* The step is a call whose save failed: an alert was shown.
SaveFailed == alerts' # alerts

\* The mutation of the call of this step is in the store after it.
MutationApplied ==
    LET c == call' IN
    /\ c.op = "toggle_account_status" =>
          accounts'[c.args[1]].status = Opposite(accounts[c.args[1]].status)
    /\ c.op = "add_transaction" =>
          accounts'[c.args[1]].transactions
             = Append(accounts[c.args[1]].transactions, c.ret)
    /\ c.op = "add_salary" => Len(salaries') = Len(salaries) + 1
    /\ c.op = "delete_account" => c.args[1] \notin DOMAIN accounts'
    /\ c.op = "update_account" => accounts'[c.args[1].id] = c.args[1]
    /\ c.op = "delete_valuation" =>
          \A i \in 1..Len(accounts'[c.args[1]].valuations) :
             accounts'[c.args[1]].valuations[i].id # c.args[2]

\* What holds of every call that reaches save() while the file cannot be
\* written: the call returns normally, its mutation is in the store, the
\* snapshot handed to save() is the whole store after the mutation, exactly one
\* alert is shown, and the file is what it was or torn, never the new state
\* written by a second attempt unless it was that state already.
FailedSaveKeepsMutation ==
    SaveReached(call', accounts) /\ medium # "ok" /\ medium' = medium =>
        /\ call'.outcome = "ok"
        /\ MutationApplied
        /\ persisted' = Serialize(accounts', order', salaries')
        /\ alerts' = alerts + 1
        /\ disk' \in {disk, Torn}

\* What holds of every call that reaches save() while the file can be written:
\* the file holds the whole store as it is after the call, and no alert is shown.
GoodSaveWritesAll ==
    SaveReached(call', accounts) /\ medium = "ok" /\ medium' = medium =>
        /\ InSyncAfter
        /\ alerts' = alerts
        /\ Len(disk'.accounts) = Cardinality(DOMAIN accounts')
        /\ disk'.salaries = salaries'

\* C21 as stated: a save that fails leaves the mutation applied, is not retried
\* and lets the call return normally; after it the store and the file differ,
\* and they stay different until a save succeeds, which writes the whole store.
C21_DifferUntilSaved ==
    [][/\ FailedSaveKeepsMutation
       /\ GoodSaveWritesAll
       /\ SaveFailed => ~InSyncAfter
       /\ ~InSync /\ InSyncAfter =>
             SaveReached(call', accounts) /\ medium = "ok" /\ medium' = medium]_vars

\* C21, amended: a save that fails leaves the mutation applied, is not retried
\* and lets the call return normally; after it the store and the file differ
\* when they agreed before and the call changed the store, and whenever the file
\* is torn; they come to agree again only by a save that succeeds, which writes
\* the whole store, or by failed calls that bring the store back to what the
\* untouched file holds.
C21_SaveFailure ==
    [][/\ FailedSaveKeepsMutation
       /\ GoodSaveWritesAll
       /\ SaveFailed /\ ((InSync /\ MemoryChanged) \/ disk' = Torn) => ~InSyncAfter
       /\ ~InSync /\ InSyncAfter =>
             \/ SaveReached(call', accounts) /\ medium = "ok" /\ medium' = medium
             \/ SaveFailed /\ disk' = disk /\ MemoryChanged]_vars

\* C21 witness: the cash account was closed while the file could not be opened
\* for writing; the call returned normally, one alert was shown, the store holds
\* the closed account, the snapshot handed to save() holds it too, and the file
\* is still the ledger the store was loaded from.
C21_Witness ==
    /\ call.op = "toggle_account_status" /\ call.args[1] = CashId
    /\ call.outcome = "ok"
    /\ medium = "denied" /\ alerts = 1
    /\ accounts[CashId].status = "dead"
    /\ persisted = Serialize(accounts, order, salaries)
    /\ disk = StoreLedger
    /\ ~InSync
    /\ [accounts EXCEPT ![CashId].status = "active"] = Deserialize(StoreLedger).accounts

====
